---- MODULE Spec2Model ----
(***************************************************************************)
(* socorro/database/schema.py: partitioned tables, the idempotent create   *)
(* protocol, the partition cache and the insert router, as a state machine *)
(* over a transactional database with savepoints.                          *)
(*                                                                         *)
(* Dates are day numbers; day 0 is Monday 2024-05-27.  A table or a        *)
(* partition is named by a pair <<base name, compressed start date>>, the  *)
(* pair <<base, 0>> naming the parent table itself.                        *)
(***************************************************************************)
EXTENDS Integers, Sequences, FiniteSets, TLC

\* ------------------------------------------------------------------ bounds
MaxDay == 8        \* dates handed to the program are 0..MaxDay
MaxOps == 2        \* calls one thread makes in a run
MaxRow == 1        \* row keys are 1..MaxRow
MaxJobs == 3       \* jobs the job source iterator yields: 0..MaxJobs - 1, or fewer
MaxWorkers == 2    \* config.number_of_threads is 1..MaxWorkers
MaxQueue == 2      \* config.maximum_queue_size is 1..MaxQueue

Threads == {"t1", "t2"}
Dates == 0..MaxDay
Rows == 1..MaxRow
Cursors == {"main", "alt"}
\* the connection a setup, teardown or pre-creation run opens for itself
Connected == "new"
Conns == Threads \X (Cursors \cup {Connected})

\* ------------------------------------------------------------------ dates
\* datetime.date.weekday(): Monday is 0
weekday(d) == d % 7

\* date.timetuple()[:3] for the modelled calendar (27..31 May, then June 2024)
timetuple3(d) == IF d <= 4 THEN <<2024, 5, 27 + d>> ELSE <<2024, 6, d - 4>>

\* "%4d-%02d-%02d" % timetuple()[:3], then .replace("-", ""): the digits YYYYMMDD
compressedDate(d) == timetuple3(d)[1] * 10000 + timetuple3(d)[2] * 100 + timetuple3(d)[3]

RECURSIVE anIterator(_, _)
anIterator(aDate, maxDate) ==
  IF aDate <= maxDate
  THEN <<<<aDate, aDate + 7>>>> \o anIterator(aDate + 7, maxDate)
  ELSE <<>>

\* the first pair starting at minDate itself, whatever its day of the week
mondayPairsIteratorFactory_FromMinDate(minDate, maxDate) ==
  anIterator(minDate, maxDate)

\* the pairs the iterator of mondayPairsIteratorFactory(minDate, maxDate) yields
mondayPairsIteratorFactory(minDate, maxDate) ==
  anIterator(minDate - weekday(minDate), maxDate)

\* ---------------------------------------------------------------- catalog
PartitionedClasses == {"ReportsTable", "ExtensionsTable"}
Classes == PartitionedClasses \cup {"ProcessorsTable", "JobsTable"}

\* the name= each class hands to DatabaseObject.__init__
className(cls) ==
  CASE cls = "ReportsTable" -> "reports"
    [] cls = "PriorityJobsTable" -> "priorityjobs"
    [] cls = "ProcessorsTable" -> "processors"
    [] cls = "JobsTable" -> "jobs"
    [] cls = "BugsTable" -> "bugs"
    [] cls = "BugAssociationsTable" -> "bug_associations"
    [] cls = "ServerStatusTable" -> "server_status"
    [] cls = "ReleaseEnum" -> "release_enum"
    [] cls = "ProductDimsTable" -> "productdims"
    [] cls = "BranchesView" -> "branches"
    [] cls = "UrlDimsTable" -> "urldims"
    [] cls = "OsDimsTable" -> "osdims"
    [] cls = "ExtensionsTable" -> "extensions"
    [] cls = "FramesTable" -> "frames"
    [] cls = "TimeBeforeFailureTable" -> "time_before_failure"
    [] cls = "ProductVisibilityTable" -> "product_visibility"
    [] cls = "TopCrashesByUrlTable" -> "top_crashes_by_url"
    [] cls = "TopCrashByUrlSignatureTable" -> "top_crashes_by_url_signature"
    [] cls = "TopCrashUrlFactsReportsTable" -> "topcrashurlfactsreports"
    [] cls = "TopCrashesBySignatureTable" -> "top_crashes_by_signature"
    [] cls = "PluginsTable" -> "plugins"
    [] cls = "PluginsReportsTable" -> "plugins_reports"
    [] cls = "AlexaTopsitesTable" -> "alexa_topsites"
    [] cls = "RawAduTable" -> "raw_adu"
    [] cls = "BuildsTable" -> "builds"
    [] cls = "DailyCrashesTable" -> "daily_crashes"
    [] cls = "EmailCampaignsTable" -> "email_campaigns"
    [] cls = "EmailContactsTable" -> "email_contacts"
    [] cls = "EmailCampaignsContactsTable" -> "email_campaigns_contacts"
    [] cls = "SignatureProductdimsTable" -> "signature_productdims"

ObjName(cls) == <<className(cls), 0>>

\* the assignments databaseDependenciesForSetup[Class] = [...], in the order of the text
databaseDependenciesForSetup ==
  ("ReportsTable" :> <<>>) @@ ("PriorityJobsTable" :> <<>>) @@ ("ProcessorsTable" :> <<>>)
  @@ ("JobsTable" :> <<"ProcessorsTable">>) @@ ("BugsTable" :> <<>>)
  @@ ("BugAssociationsTable" :> <<"BugsTable">>) @@ ("ServerStatusTable" :> <<>>)
  @@ ("ReleaseEnum" :> <<>>) @@ ("ProductDimsTable" :> <<"ReleaseEnum">>)
  @@ ("BranchesView" :> <<"ProductDimsTable">>) @@ ("UrlDimsTable" :> <<>>)
  @@ ("OsDimsTable" :> <<>>) @@ ("ExtensionsTable" :> <<>>) @@ ("FramesTable" :> <<>>)
  @@ ("TimeBeforeFailureTable" :> <<"ProductDimsTable", "OsDimsTable">>)
  @@ ("ProductVisibilityTable" :> <<"ProductDimsTable">>)
  @@ ("TopCrashesByUrlTable" :> <<"ProductDimsTable", "OsDimsTable", "UrlDimsTable">>)
  @@ ("TopCrashByUrlSignatureTable" :> <<"TopCrashesByUrlTable">>)
  @@ ("TopCrashUrlFactsReportsTable" :> <<"TopCrashesByUrlTable">>)
  @@ ("TopCrashesBySignatureTable" :> <<"OsDimsTable", "ProductDimsTable">>)
  @@ ("PluginsTable" :> <<>>) @@ ("PluginsReportsTable" :> <<"PluginsTable">>)
  @@ ("AlexaTopsitesTable" :> <<>>) @@ ("RawAduTable" :> <<>>) @@ ("BuildsTable" :> <<>>)
  @@ ("DailyCrashesTable" :> <<>>) @@ ("EmailCampaignsTable" :> <<>>)
  @@ ("EmailContactsTable" :> <<>>)
  @@ ("EmailCampaignsContactsTable" :> <<"EmailCampaignsTable", "EmailContactsTable">>)
  @@ ("SignatureProductdimsTable" :> <<"TopCrashesBySignatureTable", "ProductDimsTable">>)

\* the assignments databaseDependenciesForPartition[Class] = [...]
databaseDependenciesForPartition ==
  ("ExtensionsTable" :> <<"ReportsTable">>) @@ ("FramesTable" :> <<"ReportsTable">>)
  @@ ("PluginsReportsTable" :> <<"ReportsTable">>)

\* the classes in the order their databaseDependenciesForSetup entries are made
textualOrder ==
  << "ReportsTable", "PriorityJobsTable", "ProcessorsTable", "JobsTable", "BugsTable",
     "BugAssociationsTable", "ServerStatusTable", "ReleaseEnum", "ProductDimsTable",
     "BranchesView", "UrlDimsTable", "OsDimsTable", "ExtensionsTable", "FramesTable",
     "TimeBeforeFailureTable", "ProductVisibilityTable", "TopCrashesByUrlTable",
     "TopCrashByUrlSignatureTable", "TopCrashUrlFactsReportsTable",
     "TopCrashesBySignatureTable", "PluginsTable", "PluginsReportsTable",
     "AlexaTopsitesTable", "RawAduTable", "BuildsTable", "DailyCrashesTable",
     "EmailCampaignsTable", "EmailContactsTable", "EmailCampaignsContactsTable",
     "SignatureProductdimsTable" >>

\* the objects the creation statement of a catalog object refers to (REFERENCES,
\* a column of the enum type, the table a view selects from)
creationSqlRefs(cls) ==
  CASE cls = "JobsTable" -> {ObjName("ProcessorsTable")}
    [] cls = "BugAssociationsTable" -> {ObjName("BugsTable")}
    [] cls = "ProductDimsTable" -> {ObjName("ReleaseEnum")}
    [] cls = "BranchesView" -> {ObjName("ProductDimsTable")}
    [] cls = "TimeBeforeFailureTable" -> {ObjName("ProductDimsTable"), ObjName("OsDimsTable")}
    [] cls = "ProductVisibilityTable" -> {ObjName("ProductDimsTable")}
    [] cls = "TopCrashesByUrlTable" ->
         {ObjName("ProductDimsTable"), ObjName("OsDimsTable"), ObjName("UrlDimsTable")}
    [] cls = "TopCrashByUrlSignatureTable" -> {ObjName("TopCrashesByUrlTable")}
    [] cls = "TopCrashUrlFactsReportsTable" -> {ObjName("TopCrashesByUrlTable")}
    [] cls = "TopCrashesBySignatureTable" -> {ObjName("ProductDimsTable"), ObjName("OsDimsTable")}
    [] cls = "DailyCrashesTable" -> {ObjName("ProductDimsTable")}
    [] cls = "EmailCampaignsContactsTable" ->
         {ObjName("EmailCampaignsTable"), ObjName("EmailContactsTable")}
    [] OTHER -> {}

\* the statement each class's drop executes: Table.drop, ReleaseEnum.drop, and
\* DatabaseObject.drop (pass), which BranchesView inherits
dropSql(cls) ==
  CASE cls = "ReleaseEnum" -> "drop type if exists"
    [] cls = "BranchesView" -> "pass"
    [] OTHER -> "drop table if exists"

CatalogNames == {ObjName(c) : c \in Classes}

\* the names of all the objects of the catalog
SetupNames == {ObjName(c) : c \in DOMAIN databaseDependenciesForSetup}

\* the tables that should have weekly partitions created ahead
databaseObjectClassListForWeeklyPartitions ==
  <<"ReportsTable", "FramesTable", "ExtensionsTable", "PluginsReportsTable">>

\* socorro.lib.prioritize.dependencyOrder: every item after its precursors
RECURSIVE visit(_, _, _)
RECURSIVE visitAll(_, _, _)
visit(aMap, item, history) ==
  IF \E i \in 1..Len(history) : history[i] = item
  THEN history
  ELSE Append(visitAll(aMap, IF item \in DOMAIN aMap THEN aMap[item] ELSE <<>>, history), item)
visitAll(aMap, items, history) ==
  IF items = <<>> THEN history
  ELSE visitAll(aMap, Tail(items), visit(aMap, Head(items), history))

dependencyOrder(aMap, aList) == visitAll(aMap, aList, <<>>)

\* the classes asked for, as they come, without their precursors
getOrderedSetupList_Unordered(whichTables) == whichTables

getOrderedSetupList(whichTables) == dependencyOrder(databaseDependenciesForSetup, whichTables)

\* the classes asked for alone, without the classes their partitions depend on
getOrderedPartitionList_NoPrecursors(whichTables) == whichTables

getOrderedPartitionList(whichTables) ==
  IF whichTables = <<>> THEN <<>>
  ELSE dependencyOrder(databaseDependenciesForPartition, whichTables)

\* partitionCreationParameters(uniqueIdentifier) of the partitioned classes
partitionCreationParameters(cls, uniqueIdentifier) ==
  [ partitionName |-> <<className(cls), compressedDate(uniqueIdentifier[1])>>,
    startDate |-> timetuple3(uniqueIdentifier[1]),
    endDate |-> timetuple3(uniqueIdentifier[2]),
    compressedStartDate |-> compressedDate(uniqueIdentifier[1]) ]

\* the partition named after the day its window ends
partitionNameOf_EndDate(cls, uniqueIdentifier) ==
  <<className(cls), compressedDate(uniqueIdentifier[2])>>

\* self.partitionNameTemplate % partitionCreationParameters["partitionName"], template '%s'
partitionNameOf(cls, uniqueIdentifier) ==
  partitionCreationParameters(cls, uniqueIdentifier).partitionName

\* what partitionCreationSqlTemplate % parameters refers to: INHERITS (parent), the
\* foreign key to reports_<compressedStartDate> of extensions, frames and
\* plugins_reports, and the foreign key to plugins of plugins_reports
partitionCreationRefs(cls, uniqueIdentifier) ==
  {ObjName(cls)} \cup
  (IF cls \in {"ExtensionsTable", "FramesTable", "PluginsReportsTable"}
   THEN {<<"reports", partitionCreationParameters(cls, uniqueIdentifier).compressedStartDate>>}
   ELSE {}) \cup
  (IF cls = "PluginsReportsTable" THEN {ObjName("PluginsTable")} ELSE {})

\* ------------------------------------------------------------------ state
VARIABLES
  committed,                 \* names of the tables that exist, committed
  rows,                      \* committed rows, <<partition name, row key>>
  conn,                      \* per connection: the open transaction
  partitionCreationHistory,  \* the module-level cache of created partitions
  lockOwner,                 \* the thread holding PartitionedTable.partitionCreationLock
  th,                        \* per thread: the call in progress and its locals
  ttm                        \* the threaded task manager, its threads and its queue

vars == <<committed, rows, conn, partitionCreationHistory, lockOwner, th, ttm>>

\* the state of the database code, which the task manager's threads leave alone
schemaVars == <<committed, rows, conn, partitionCreationHistory, lockOwner, th>>

NoThread == "none"

\* a transaction with nothing done in it
CleanTxn == [pend |-> {}, prows |-> {}, drop |-> {}, sp |-> <<>>, failed |-> FALSE]

\* what a statement on connection c sees: committed work and its own transaction's
Visible(c) == (committed \ conn[c].drop) \cup conn[c].pend
VisibleRows(c) == {x \in rows : x[1] \notin conn[c].drop} \cup conn[c].prows

\* ------------------------------------------------- the database's statements
\* index of the latest savepoint called n on the stack, 0 when there is none
RECURSIVE FindSavepoint(_, _)
FindSavepoint(stack, n) ==
  IF stack = <<>> THEN 0
  ELSE IF stack[Len(stack)].n = n THEN Len(stack)
  ELSE FindSavepoint(SubSeq(stack, 1, Len(stack) - 1), n)

Ok(txn) == [err |-> "none", cause |-> "none", txn |-> txn]
Fail(cls, cause, txn) == [err |-> cls, cause |-> cause, txn |-> [txn EXCEPT !.failed = TRUE]]

\* cursor.execute(stmt) on a connection whose transaction is txn and which sees the
\* tables seen and the rows seenRows: the exception class raised ("none" when the
\* statement succeeds) and the transaction afterwards.  A statement that fails
\* leaves the transaction failed: until a rollback every statement but
\* "rollback to" is refused.
Execute(txn, seen, seenRows, stmt) ==
  LET i == FindSavepoint(txn.sp, stmt.n) IN
  CASE stmt.k = "rollback_to" ->
         IF i = 0 THEN Fail("InternalError", "no_savepoint", txn)
         ELSE Ok([pend |-> txn.sp[i].pend, prows |-> txn.sp[i].prows,
                  drop |-> txn.sp[i].drop,
                  sp |-> SubSeq(txn.sp, 1, i), failed |-> FALSE])
    [] stmt.k = "rollback_release" ->   \* "rollback to n; release savepoint n;"
         IF i = 0 THEN Fail("InternalError", "no_savepoint", txn)
         ELSE Ok([pend |-> txn.sp[i].pend, prows |-> txn.sp[i].prows,
                  drop |-> txn.sp[i].drop,
                  sp |-> SubSeq(txn.sp, 1, i - 1), failed |-> FALSE])
    [] stmt.k \notin {"rollback_to", "rollback_release"} /\ txn.failed ->
         Fail("InternalError", "failed_transaction", txn)
    [] stmt.k = "savepoint" /\ ~txn.failed ->
         Ok([txn EXCEPT !.sp = Append(@, [n |-> stmt.n, pend |-> txn.pend,
                                          prows |-> txn.prows, drop |-> txn.drop])])
    [] stmt.k = "release" /\ ~txn.failed ->
         IF i = 0 THEN Fail("InternalError", "no_savepoint", txn)
         ELSE Ok([txn EXCEPT !.sp = SubSeq(@, 1, i - 1)])
    [] stmt.k = "create" /\ ~txn.failed ->
         IF stmt.n[2] \in seen THEN Fail("ProgrammingError", "duplicate", txn)
         ELSE IF ~(stmt.refs \subseteq seen) THEN Fail("ProgrammingError", "undefined", txn)
         ELSE Ok([txn EXCEPT !.pend = @ \cup {stmt.n[2]}])
    [] stmt.k = "insert" /\ ~txn.failed ->
         IF stmt.n[2] \notin seen THEN Fail("ProgrammingError", "undefined", txn)
         ELSE IF <<stmt.n[2], stmt.row>> \in seenRows THEN Fail("IntegrityError", "unique", txn)
         ELSE Ok([txn EXCEPT !.prows = @ \cup {<<stmt.n[2], stmt.row>>}])
    [] stmt.k = "drop_index" /\ ~txn.failed ->   \* "DROP INDEX n"
         IF stmt.n[2] \notin seen THEN Fail("ProgrammingError", "undefined", txn)
         ELSE Ok([txn EXCEPT !.pend = @ \ {stmt.n[2]}, !.drop = @ \cup {stmt.n[2]}])
    [] stmt.k = "drop" /\ ~txn.failed ->   \* "drop ... if exists n cascade"
         LET gone == {x \in seen : x[1] = stmt.n[2][1]} \cup (stmt.refs \cap seen)
         IN Ok([txn EXCEPT !.pend = @ \ gone, !.drop = @ \cup gone,
                           !.prows = {x \in @ : x[1] \notin gone}])

\* statements; a savepoint is named by <<prefix, table name>>
Savepoint(prefix, name) == [k |-> "savepoint", n |-> <<prefix, name>>, refs |-> {}, row |-> 0]
Release(prefix, name) == [k |-> "release", n |-> <<prefix, name>>, refs |-> {}, row |-> 0]
RollbackTo(prefix, name) == [k |-> "rollback_to", n |-> <<prefix, name>>, refs |-> {}, row |-> 0]
RollbackRelease(prefix, name) == [k |-> "rollback_release", n |-> <<prefix, name>>, refs |-> {}, row |-> 0]
CreateTable(name, refs) == [k |-> "create", n |-> <<"table", name>>, refs |-> refs, row |-> 0]
InsertInto(name, row) == [k |-> "insert", n |-> <<"table", name>>, refs |-> {}, row |-> row]
\* cascade: with the object go its partitions (they inherit from it) and the views
\* selecting from it, here given as views
DropIfExists(name, views) == [k |-> "drop", n |-> <<"table", name>>, refs |-> views, row |-> 0]

\* an index is a relation of the database, named as a table is
DropIndex(name) == [k |-> "drop_index", n |-> <<"index", <<name, 0>>>>, refs |-> {}, row |-> 0]
CreateIndex(name, table) ==
  [k |-> "create", n |-> <<"index", <<name, 0>>>>, refs |-> {table}, row |-> 0]

\* cursor.execute of several statements in one string: they run in order and the
\* first that fails ends the execution
RECURSIVE ExecuteAll(_, _)
ExecuteAll(txn, stmts) ==
  IF stmts = <<>> THEN Ok(txn)
  ELSE LET r == Execute(txn, (committed \ txn.drop) \cup txn.pend, {}, Head(stmts))
       IN IF r.err = "none" THEN ExecuteAll(r.txn, Tail(stmts)) ELSE r

\* a creation waits while another connection holds the same name uncommitted
Blocked(c, stmt) ==
  stmt.k = "create" /\ \E c2 \in Conns \ {c} : stmt.n[2] \in conn[c2].pend

Run(c, stmt) == Execute(conn[c], Visible(c), VisibleRows(c), stmt)

\* connection.commit(): a failed transaction is rolled back instead
Commit(c) ==
  /\ committed' = IF conn[c].failed THEN committed
                  ELSE (committed \ conn[c].drop) \cup conn[c].pend
  /\ rows' = IF conn[c].failed THEN rows
             ELSE {x \in rows : x[1] \notin conn[c].drop} \cup conn[c].prows
  /\ conn' = [conn EXCEPT ![c] = CleanTxn]

\* connection.rollback()
Rollback(c) ==
  /\ conn' = [conn EXCEPT ![c] = CleanTxn]
  /\ UNCHANGED <<committed, rows>>

\* ------------------------------------------------------------- the cache
\* the test inverted
partitionWasCreated_Inverted(partitionTableName) == partitionTableName \notin partitionCreationHistory

partitionWasCreated(partitionTableName) == partitionTableName \in partitionCreationHistory

\* the cache replaced by a set holding the new name alone
markPartitionCreated_Replace(partitionTableName) ==
  partitionCreationHistory' = {partitionTableName}

markPartitionCreated(partitionTableName) ==
  partitionCreationHistory' = partitionCreationHistory \cup {partitionTableName}

\* --------------------------------------------------- the task manager
\* ThreadedTaskManager(config, task_func, job_source_iterator): nothing started,
\* quit is False.  jobs is how many jobs the iterator will yield (0, 1, ...), and
\* raiseAt the call of task_func that raises (0: none does)
ThreadedTaskManager(number_of_threads, maximum_queue_size, jobs, raiseAt) ==
  [ number_of_threads |-> number_of_threads,
    maximum_queue_size |-> maximum_queue_size,
    jobs |-> jobs, raiseAt |-> raiseAt,
    quit |-> FALSE,
    main |-> "constructed",
    queuing_thread |-> "none",
    thread_list |-> <<>>,
    task_queue |-> <<>>,
    yielded |-> 0,
    killed |-> 0,
    calls |-> <<>>,
    my_list |-> <<>> ]

\* what the queue holds: a job for task_func, or the (None, None) that ends a worker
Task(x) == [f |-> "task_func", x |-> x]
NoneNone == [f |-> "None", x |-> 0]

\* a worker thread waiting at task_queue.get(), running a job, or ended
Waiting == [alive |-> TRUE, busy |-> FALSE, x |-> 0]
Running(x) == [alive |-> TRUE, busy |-> TRUE, x |-> x]
Ended == [alive |-> FALSE, busy |-> FALSE, x |-> 0]

\* ------------------------------------------------------------ the threads
\* a thread between calls
IdleLocals ==
  [ pc |-> "idle", kind |-> "none", cls |-> "none", kwargs |-> [k \in {} |-> 0],
    row |-> 0, cur |-> "main", ret |-> "top", order |-> <<>>, items |-> <<>>,
    ti |-> 1, wi |-> 1, uniqueIdentifier |-> 0, pname |-> <<"none", 0>>,
    err |-> "none", cause |-> "none", result |-> "none", trace |-> <<>>,
    cache0 |-> {}, seen0 |-> {}, failed0 |-> FALSE, again |-> FALSE,
    minDate |-> 0, maxDate |-> 0, aDate |-> 0, first |-> <<>>, second |-> <<>>,
    attempted |-> {}, ci |-> 1 ]

Merge(old, new) == [f \in DOMAIN old |-> IF f \in DOMAIN new THEN new[f] ELSE old[f]]

\* thread t's locals change as in new, the other threads' stay
Set(t, new) == th' = [th EXCEPT ![t] = Merge(th[t], new)] /\ UNCHANGED ttm

\* the same, and the call's trace records the step: the cursor it used ("-" when
\* none), what it did and the exception class it raised
Step(t, cur, what, err, new) ==
  Set(t, new @@ [trace |-> Append(th[t].trace, [c |-> cur, k |-> what, err |-> err])])

\* how many steps of the kind what the call has made so far
Count(t, what) == Cardinality({i \in 1..Len(th[t].trace) : th[t].trace[i].k = what})

Init ==
  /\ committed \in { {}, CatalogNames,
                     CatalogNames \cup {<<"reports", compressedDate(0)>>},
                     CatalogNames \cup {<<"reports", compressedDate(0)>>,
                                        <<"extensions", compressedDate(0)>>} }
  /\ rows = {}
  /\ conn = [c \in Conns |-> CleanTxn]
  /\ partitionCreationHistory = {}
  /\ lockOwner = NoThread
  /\ th = [t \in Threads |-> IdleLocals @@ [ops |-> 0, created |-> {}]]
  /\ ttm = ThreadedTaskManager(1, 1, 0, 0)

\* the call ends normally, or with the exception cls reaching the caller
Returns == [pc |-> "done", result |-> "ok"]
Raises(cls) == [pc |-> "done", result |-> cls]

\* ---------------------------------------------- PartitionedTable.insert
\* try: kwargs["date_processed"] except KeyError
HasPartitionKey(kwargs) == "date_processed" \in DOMAIN kwargs

\* every exception caught, not only pg.ProgrammingError
CaughtByInsert_Any(err) == err # "none"

\* except pg.ProgrammingError around the first insert attempt
CaughtByInsert(err) == err = "ProgrammingError"

\* only pg.ProgrammingError caught around createPartitions
CaughtAroundCreatePartitions_Programming(err) ==
  err = "ProgrammingError"

\* except pg.DatabaseError around createPartitions: every database error
CaughtAroundCreatePartitions(err) ==
  err \in {"ProgrammingError", "IntegrityError", "InternalError", "OperationalError"}

\* what the first attempt's try block does with the outcome r of a statement
InsertTry(r, next) ==
  IF r.err = "none" THEN next
  ELSE IF CaughtByInsert(r.err)
       THEN [pc |-> "insert_rollback", err |-> r.err, cause |-> r.cause]
       ELSE Raises(r.err)

\* a failed retry goes back to the creation of the partition
RetryOutcome_TryAgain(r) == IF r.err = "none" THEN [pc |-> "done", result |-> "ok"] ELSE [pc |-> "insert_alternate"]

\* what the second attempt's outcome r means for the call
RetryOutcome(r) == IF r.err = "none" THEN Returns ELSE Raises(r.err)

BeginInsert(t, cls, kwargs, row) ==
  /\ th[t].pc = "idle" /\ th[t].ops < MaxOps
  /\ Set(t, [ pc |-> "insert_key", kind |-> "insert", cls |-> cls, kwargs |-> kwargs,
              row |-> row, cur |-> "main", ops |-> th[t].ops + 1,
              cache0 |-> partitionCreationHistory, seen0 |-> Visible(<<t, "main">>),
              failed0 |-> conn[<<t, "main">>].failed ])
  /\ UNCHANGED <<committed, rows, conn, partitionCreationHistory, lockOwner>>

\* a missing date_processed replaced by a default date instead of raising
InsertKey_DefaultDate(t) ==
  /\ th[t].pc = "insert_key"
  /\ LET uniqueIdentifier == IF HasPartitionKey(th[t].kwargs) THEN th[t].kwargs["date_processed"] ELSE 0
         dateRangeTuple == mondayPairsIteratorFactory(uniqueIdentifier, uniqueIdentifier)[1]
     IN Set(t, [ pc |-> "insert_savepoint", uniqueIdentifier |-> uniqueIdentifier,
                 pname |-> partitionCreationParameters(th[t].cls, dateRangeTuple).partitionName ])
  /\ UNCHANGED <<committed, rows, conn, partitionCreationHistory, lockOwner>>

InsertKey(t) ==
  /\ th[t].pc = "insert_key"
  /\ IF HasPartitionKey(th[t].kwargs)
     THEN LET uniqueIdentifier == th[t].kwargs["date_processed"]
              dateRangeTuple == mondayPairsIteratorFactory(uniqueIdentifier, uniqueIdentifier)[1]
          IN Set(t, [ pc |-> "insert_savepoint", uniqueIdentifier |-> uniqueIdentifier,
                      pname |-> partitionCreationParameters(th[t].cls, dateRangeTuple).partitionName ])
     ELSE Set(t, Raises("PartitionControlParameterRequired"))
  /\ UNCHANGED <<committed, rows, conn, partitionCreationHistory, lockOwner>>

InsertSavepoint(t) ==
  /\ th[t].pc = "insert_savepoint"
  /\ LET c == <<t, "main">>
         r == Run(c, Savepoint("", th[t].pname))
     IN /\ conn' = [conn EXCEPT ![c] = r.txn]
        /\ Step(t, "main", "savepoint", r.err, InsertTry(r, [pc |-> "insert_execute"]))
  /\ UNCHANGED <<committed, rows, partitionCreationHistory, lockOwner>>

InsertExecute(t) ==
  /\ th[t].pc = "insert_execute"
  /\ LET c == <<t, "main">>
         r == Run(c, InsertInto(th[t].pname, th[t].row))
     IN /\ conn' = [conn EXCEPT ![c] = r.txn]
        /\ Step(t, "main", "insert", r.err, InsertTry(r, [pc |-> "insert_release"]))
  /\ UNCHANGED <<committed, rows, partitionCreationHistory, lockOwner>>

InsertRelease(t) ==
  /\ th[t].pc = "insert_release"
  /\ LET c == <<t, "main">>
         r == Run(c, Release("", th[t].pname))
     IN /\ conn' = [conn EXCEPT ![c] = r.txn]
        /\ Step(t, "main", "release", r.err, InsertTry(r, Returns))
  /\ UNCHANGED <<committed, rows, partitionCreationHistory, lockOwner>>

\* "rollback to %s; release savepoint %s;"
InsertRollback(t) ==
  /\ th[t].pc = "insert_rollback"
  /\ LET c == <<t, "main">>
         r == Run(c, RollbackRelease("", th[t].pname))
     IN /\ conn' = [conn EXCEPT ![c] = r.txn]
        /\ Step(t, "main", "rollback_release", r.err,
                IF r.err = "none" THEN [pc |-> "insert_commit"] ELSE Raises(r.err))
  /\ UNCHANGED <<committed, rows, partitionCreationHistory, lockOwner>>

\* connection.rollback() in the place of the commit
InsertCommit_Rollback(t) ==
  /\ th[t].pc = "insert_commit"
  /\ Rollback(<<t, "main">>)
  /\ Step(t, "main", "commit", "none", [pc |-> "insert_alternate"])
  /\ UNCHANGED <<partitionCreationHistory, lockOwner>>

InsertCommit(t) ==
  /\ th[t].pc = "insert_commit"
  /\ Commit(<<t, "main">>)
  /\ Step(t, "main", "commit", "none", [pc |-> "insert_alternate"])
  /\ UNCHANGED <<partitionCreationHistory, lockOwner>>

\* createPartitions called with the caller's cursor
InsertAlternate_CallerCursor(t) ==
  /\ th[t].pc = "insert_alternate"
  /\ Step(t, "-", "alternateCursorFunction", "none",
          [ pc |-> "createPartitions", cur |-> "main", ret |-> "insert",
            items |-> mondayPairsIteratorFactory(th[t].uniqueIdentifier, th[t].uniqueIdentifier) ])
  /\ UNCHANGED <<committed, rows, conn, partitionCreationHistory, lockOwner>>

\* alternateCursorFunction(), the date iterator, and the call of createPartitions
InsertAlternate(t) ==
  /\ th[t].pc = "insert_alternate"
  /\ Step(t, "-", "alternateCursorFunction", "none",
          [ pc |-> "createPartitions", cur |-> "alt", ret |-> "insert",
            items |-> mondayPairsIteratorFactory(th[t].uniqueIdentifier, th[t].uniqueIdentifier) ])
  /\ UNCHANGED <<committed, rows, conn, partitionCreationHistory, lockOwner>>

\* the second attempt, outside any try block
InsertRetry(t) ==
  /\ th[t].pc = "insert_retry"
  /\ LET c == <<t, "main">>
         r == Run(c, InsertInto(th[t].pname, th[t].row))
     IN /\ conn' = [conn EXCEPT ![c] = r.txn]
        /\ Step(t, "main", "insert", r.err, RetryOutcome(r))
  /\ UNCHANGED <<committed, rows, partitionCreationHistory, lockOwner>>

\* --------------------------------- PartitionedTable.createPartitions
\* the wrong exception class caught
CaughtByCreateOwnPartition_Integrity(err) == err = "IntegrityError"

\* except pg.ProgrammingError around the creation of one partition
CaughtByCreateOwnPartition(err) == err = "ProgrammingError"

\* the cursor createPartitions or create works on
CpConn(t) == <<t, th[t].cur>>

\* the partition the loops of createPartitions / _createOwnPartition are at
CurrentPartition(t) == partitionNameOf(th[t].order[th[t].ti], th[t].items[th[t].wi])

\* createPartitions returns to its caller: insert goes on to its retry, the
\* module-level createPartitions to its commit
CreatePartitionsReturns(t) ==
  IF th[t].ret = "insert" THEN [pc |-> "insert_retry", cur |-> "main"]
  ELSE IF th[t].ret = "module" THEN [pc |-> "module_commit"]
  ELSE Returns

\* an exception leaves createPartitions: insert logs any database error and goes on,
\* the module-level createPartitions catches everything
CreatePartitionsRaises(t, r) ==
  IF th[t].ret = "insert" /\ CaughtAroundCreatePartitions(r.err)
  THEN [pc |-> "insert_retry", cur |-> "main", err |-> r.err, cause |-> r.cause]
  ELSE IF th[t].ret = "module"
  THEN [pc |-> "module_rollback", err |-> r.err, cause |-> r.cause]
  ELSE Raises(r.err)

\* partitionCreationSqlTemplate % partitionCreationParameters, for the current partition
partitionCreationSql(t) ==
  CreateTable(partitionCreationParameters(th[t].order[th[t].ti], th[t].items[th[t].wi]).partitionName,
              partitionCreationRefs(th[t].order[th[t].ti], th[t].items[th[t].wi]))

\* the next window of this table, the first window of the next table, or the end
NextPartition(t) ==
  IF th[t].wi < Len(th[t].items) THEN [pc |-> "own_check", wi |-> th[t].wi + 1]
  ELSE IF th[t].ti < Len(th[t].order) THEN [pc |-> "own_check", ti |-> th[t].ti + 1, wi |-> 1]
  ELSE CreatePartitionsReturns(t)

\* what the try block of _createOwnPartition does with the outcome r of a statement
OwnTry(t, r, next) ==
  IF r.err = "none" THEN [pc |-> next]
  ELSE IF CaughtByCreateOwnPartition(r.err)
       THEN [pc |-> "own_rollback", err |-> r.err, cause |-> r.cause]
       ELSE CreatePartitionsRaises(t, r)

BeginCreatePartitions(t, cls, minDate, maxDate) ==
  /\ th[t].pc = "idle" /\ th[t].ops < MaxOps
  /\ minDate <= maxDate
  /\ Set(t, [ pc |-> "createPartitions", kind |-> "createPartitions", cls |-> cls,
              cur |-> "main", ret |-> "top", ops |-> th[t].ops + 1,
              items |-> mondayPairsIteratorFactory(minDate, maxDate),
              cache0 |-> partitionCreationHistory, seen0 |-> Visible(<<t, "main">>),
              failed0 |-> conn[<<t, "main">>].failed ])
  /\ UNCHANGED <<committed, rows, conn, partitionCreationHistory, lockOwner>>

\* getOrderedPartitionList([self.__class__]); uniqueItems = [x for x in iterator]
CreatePartitions(t) ==
  /\ th[t].pc = "createPartitions"
  /\ LET partitionTableClasses == getOrderedPartitionList(<<th[t].cls>>)
     IN Step(t, "-", "createPartitions", "none",
             (IF partitionTableClasses = <<>> \/ th[t].items = <<>>
              THEN CreatePartitionsReturns(t)
              ELSE [pc |-> "own_check"])
             @@ [order |-> partitionTableClasses, ti |-> 1, wi |-> 1])
  /\ UNCHANGED <<committed, rows, conn, partitionCreationHistory, lockOwner>>

\* the lock taken at the check and kept for the rest of the loop body
OwnCheck_HoldsLock(t) ==
  /\ th[t].pc = "own_check"
  /\ lockOwner' = t
  /\ Step(t, "-", "partitionWasCreated", "none",
          IF partitionWasCreated(CurrentPartition(t))
          THEN NextPartition(t)
          ELSE [pc |-> "own_savepoint", err |-> "none", cause |-> "none"])
  /\ UNCHANGED <<committed, rows, conn, partitionCreationHistory>>

\* if partitionWasCreated(partitionName): continue
OwnCheck(t) ==
  /\ th[t].pc = "own_check"
  /\ Step(t, "-", "partitionWasCreated", "none",
          IF partitionWasCreated(CurrentPartition(t))
          THEN NextPartition(t)
          ELSE [pc |-> "own_savepoint", err |-> "none", cause |-> "none"])
  /\ UNCHANGED <<committed, rows, conn, partitionCreationHistory, lockOwner>>

\* the savepoint is set before the try block
OwnSavepoint(t) ==
  /\ th[t].pc = "own_savepoint"
  /\ LET r == Run(CpConn(t), Savepoint("createPartitions", CurrentPartition(t)))
     IN /\ conn' = [conn EXCEPT ![CpConn(t)] = r.txn]
        /\ Step(t, th[t].cur, "savepoint", r.err,
                IF r.err = "none" THEN [pc |-> "own_create"] ELSE CreatePartitionsRaises(t, r))
  /\ UNCHANGED <<committed, rows, partitionCreationHistory, lockOwner>>

\* aPartition._createSelf(databaseCursor)
OwnCreate(t) ==
  /\ th[t].pc = "own_create"
  /\ LET stmt == partitionCreationSql(t)
         r == Run(CpConn(t), stmt)
     IN /\ ~Blocked(CpConn(t), stmt)
        /\ conn' = [conn EXCEPT ![CpConn(t)] = r.txn]
        /\ Step(t, th[t].cur, "create", r.err,
                OwnTry(t, r, "own_mark")
                @@ [attempted |-> th[t].attempted \cup {CurrentPartition(t)}])
  /\ UNCHANGED <<committed, rows, partitionCreationHistory, lockOwner>>

\* aPartition._createSelf(databaseCursor) when the database refuses the statement
\* for a reason of its own (a conflicting change, a lost server): an error that is
\* a pg.DatabaseError and not a pg.ProgrammingError
OwnCreateRefused(t) ==
  /\ th[t].pc = "own_create"
  /\ LET r == Fail("OperationalError", "refused", conn[CpConn(t)])
     IN /\ conn' = [conn EXCEPT ![CpConn(t)] = r.txn]
        /\ Step(t, th[t].cur, "create", r.err,
                OwnTry(t, r, "own_mark")
                @@ [attempted |-> th[t].attempted \cup {CurrentPartition(t)}])
  /\ UNCHANGED <<committed, rows, partitionCreationHistory, lockOwner>>

OwnMark(t) ==
  /\ th[t].pc = "own_mark"
  /\ markPartitionCreated(CurrentPartition(t))
  /\ Step(t, "-", "markPartitionCreated", "none", [pc |-> "own_release"])
  /\ UNCHANGED <<committed, rows, conn, lockOwner>>

OwnRelease(t) ==
  /\ th[t].pc = "own_release"
  /\ LET r == Run(CpConn(t), Release("createPartitions", CurrentPartition(t)))
     IN /\ conn' = [conn EXCEPT ![CpConn(t)] = r.txn]
        /\ Step(t, th[t].cur, "release", r.err, OwnTry(t, r, "own_commit"))
  /\ UNCHANGED <<committed, rows, partitionCreationHistory, lockOwner>>

\* "rollback to createPartitions_%s; release savepoint createPartitions_%s;"
OwnRollback(t) ==
  /\ th[t].pc = "own_rollback"
  /\ LET r == Run(CpConn(t), RollbackRelease("createPartitions", CurrentPartition(t)))
     IN /\ conn' = [conn EXCEPT ![CpConn(t)] = r.txn]
        /\ Step(t, th[t].cur, "rollback_release", r.err,
                IF r.err = "none" THEN [pc |-> "own_commit"] ELSE CreatePartitionsRaises(t, r))
  /\ UNCHANGED <<committed, rows, partitionCreationHistory, lockOwner>>

\* the loop body without its commit
OwnCommit_Skip(t) ==
  /\ th[t].pc = "own_commit"
  /\ Step(t, th[t].cur, "commit", "none", [pc |-> "own_end"])
  /\ UNCHANGED <<committed, rows, conn, partitionCreationHistory, lockOwner>>

OwnCommit(t) ==
  /\ th[t].pc = "own_commit"
  /\ Commit(CpConn(t))
  /\ Step(t, th[t].cur, "commit", "none", [pc |-> "own_end"])
  /\ UNCHANGED <<partitionCreationHistory, lockOwner>>

\* the end of the loop body: on to the next partition
OwnEnd(t) ==
  /\ th[t].pc = "own_end"
  /\ Set(t, NextPartition(t))
  /\ UNCHANGED <<committed, rows, conn, partitionCreationHistory, lockOwner>>

\* ------------------------------------------------ DatabaseObject.create
\* the wrong exception class caught
CaughtByCreate_Integrity(err) == err = "IntegrityError"

\* except pg.ProgrammingError around _createSelf and the release
CaughtByCreate(err) == err = "ProgrammingError"

CurrentObject(t) == ObjName(th[t].order[th[t].ti])

NextObject(t) ==
  IF th[t].ti < Len(th[t].order) THEN [pc |-> "create_savepoint", ti |-> th[t].ti + 1]
  ELSE Returns

CreateTry(r, next) ==
  IF r.err = "none" THEN next
  ELSE IF CaughtByCreate(r.err)
       THEN [pc |-> "create_rollback", err |-> r.err, cause |-> r.cause]
       ELSE Raises(r.err)

\* orderedDbObjectList = getOrderedSetupList([self.__class__])
BeginCreate(t, cls, cur) ==
  /\ th[t].pc = "idle" /\ th[t].ops < MaxOps
  /\ Set(t, [ pc |-> "create_savepoint", kind |-> "create", cls |-> cls, cur |-> cur,
              ops |-> th[t].ops + 1, order |-> getOrderedSetupList(<<cls>>), ti |-> 1,
              cache0 |-> partitionCreationHistory, seen0 |-> Visible(<<t, cur>>),
              failed0 |-> conn[<<t, cur>>].failed, again |-> cls \in th[t].created ])
  /\ UNCHANGED <<committed, rows, conn, partitionCreationHistory, lockOwner>>

\* the savepoint is set before the try block
CreateSavepoint(t) ==
  /\ th[t].pc = "create_savepoint"
  /\ LET r == Run(CpConn(t), Savepoint("creating", CurrentObject(t)))
     IN /\ conn' = [conn EXCEPT ![CpConn(t)] = r.txn]
        /\ Step(t, th[t].cur, "savepoint", r.err,
                IF r.err = "none" THEN [pc |-> "create_self", err |-> "none", cause |-> "none"]
                ELSE Raises(r.err))
  /\ UNCHANGED <<committed, rows, partitionCreationHistory, lockOwner>>

\* dbObjectObject._createSelf(databaseCursor)
CreateSelf(t) ==
  /\ th[t].pc = "create_self"
  /\ LET stmt == CreateTable(CurrentObject(t), creationSqlRefs(th[t].order[th[t].ti]))
         r == Run(CpConn(t), stmt)
     IN /\ ~Blocked(CpConn(t), stmt)
        /\ conn' = [conn EXCEPT ![CpConn(t)] = r.txn]
        /\ Step(t, th[t].cur, "create", r.err, CreateTry(r, [pc |-> "create_release"]))
  /\ UNCHANGED <<committed, rows, partitionCreationHistory, lockOwner>>

CreateRelease(t) ==
  /\ th[t].pc = "create_release"
  /\ LET r == Run(CpConn(t), Release("creating", CurrentObject(t)))
     IN /\ conn' = [conn EXCEPT ![CpConn(t)] = r.txn]
        /\ Step(t, th[t].cur, "release", r.err, CreateTry(r, NextObject(t)))
  /\ UNCHANGED <<committed, rows, partitionCreationHistory, lockOwner>>

\* the whole transaction rolled back instead of the one statement
CreateRollback_Whole(t) ==
  /\ th[t].pc = "create_rollback"
  /\ Rollback(CpConn(t))
  /\ Step(t, th[t].cur, "rollback_to", "none", [pc |-> "create_commit"])
  /\ UNCHANGED <<partitionCreationHistory, lockOwner>>

\* "rollback to creating_%s"
CreateRollback(t) ==
  /\ th[t].pc = "create_rollback"
  /\ LET r == Run(CpConn(t), RollbackTo("creating", CurrentObject(t)))
     IN /\ conn' = [conn EXCEPT ![CpConn(t)] = r.txn]
        /\ Step(t, th[t].cur, "rollback_to", r.err,
                IF r.err = "none" THEN [pc |-> "create_commit"] ELSE Raises(r.err))
  /\ UNCHANGED <<committed, rows, partitionCreationHistory, lockOwner>>

CreateCommit(t) ==
  /\ th[t].pc = "create_commit"
  /\ Commit(CpConn(t))
  /\ Step(t, th[t].cur, "commit", "none", NextObject(t))
  /\ UNCHANGED <<partitionCreationHistory, lockOwner>>

\* ------------------------------------------- JobsTable.updateDefinition
\* the index names updateDefinition tests, drops or creates
JobsIndexes ==
  { "idx_owner", "idx_queueddatetime", "idx_starteddatetime", "jobs_priority_queueddatetime",
    "jobs_owner_starteddatetime", "jobs_owner_key", "jobs_owner_starteddatetime_key",
    "jobs_owner_starteddatetime_priority_key", "jobs_completeddatetime_queueddatetime_key",
    "jobs_success_key" }

\* socorro_pg.indexesForTable(tableName, cursor): the names of the table's indexes
\* as the cursor's transaction sees them
indexesForTable(tableName, c) ==
  IF tableName = "jobs" THEN {i \in JobsIndexes : <<i, 0>> \in Visible(c)} ELSE {}

\* the if statements of JobsTable.updateDefinition, in order: the test of
\* indexesList and the statements executed when it holds
updateDefinition ==
  << [test |-> "in", index |-> "idx_owner",
      sql |-> <<DropIndex("idx_owner"), CreateIndex("jobs_owner_key", ObjName("JobsTable"))>>],
     [test |-> "in", index |-> "idx_queueddatetime",
      sql |-> <<DropIndex("idx_queueddatetime")>>],
     [test |-> "in", index |-> "idx_starteddatetime",
      sql |-> <<DropIndex("idx_starteddatetime")>>],
     [test |-> "in", index |-> "jobs_priority_queueddatetime",
      sql |-> <<DropIndex("jobs_priority_queueddatetime")>>],
     [test |-> "in", index |-> "jobs_owner_starteddatetime",
      sql |-> <<DropIndex("jobs_owner_starteddatetime"),
                CreateIndex("jobs_owner_starteddatetime_key", ObjName("JobsTable"))>>],
     [test |-> "not in", index |-> "jobs_owner_starteddatetime_priority_key",
      sql |-> <<CreateIndex("jobs_owner_starteddatetime_priority_key", ObjName("JobsTable"))>>],
     [test |-> "not in", index |-> "jobs_completeddatetime_queueddatetime_key",
      sql |-> <<CreateIndex("jobs_completeddatetime_queueddatetime_key", ObjName("JobsTable"))>>],
     [test |-> "not in", index |-> "jobs_success_key",
      sql |-> <<CreateIndex("jobs_success_key", ObjName("JobsTable"))>>] >>

\* every statement executed, whatever indexesList holds
Applies_Always(rule, indexesList) == rule.test \in {"in", "not in"}

\* if '<index>' in indexesList / if '<index>' not in indexesList
Applies(rule, indexesList) ==
  IF rule.test = "in" THEN rule.index \in indexesList ELSE rule.index \notin indexesList

\* the if statements whose body a call with this indexesList executes
Alterations(indexesList) ==
  {i \in 1..Len(updateDefinition) : Applies(updateDefinition[i], indexesList)}

\* the next if statement, or the end of updateDefinition
NextRule(t) ==
  IF th[t].ti < Len(updateDefinition) THEN [ti |-> th[t].ti + 1] ELSE Returns

\* indexesList = socorro_pg.indexesForTable(self.name, databaseCursor): a query,
\* which a failed transaction refuses
BeginUpdateDefinition(t) ==
  /\ th[t].pc = "idle" /\ th[t].ops < MaxOps
  /\ LET c == <<t, "main">>
         r == IF conn[c].failed THEN Fail("InternalError", "failed_transaction", conn[c])
              ELSE Ok(conn[c])
     IN Step(t, "main", "indexesForTable", r.err,
             (IF r.err = "none" THEN [pc |-> "updateDefinition"] ELSE Raises(r.err))
             @@ [ kind |-> "updateDefinition", cls |-> "JobsTable", cur |-> "main",
                  ops |-> th[t].ops + 1, ti |-> 1,
                  indexesList |-> indexesForTable(className("JobsTable"), c),
                  cache0 |-> partitionCreationHistory, seen0 |-> Visible(c),
                  failed0 |-> conn[c].failed ])
  /\ UNCHANGED <<committed, rows, conn, partitionCreationHistory, lockOwner>>

\* one if statement: its test of indexesList, and its statements when it holds
UpdateDefinitionStep(t) ==
  /\ th[t].pc = "updateDefinition"
  /\ LET c == <<t, "main">>
         rule == updateDefinition[th[t].ti]
         r == ExecuteAll(conn[c], rule.sql)
     IN IF Applies(rule, th[t].indexesList)
        THEN /\ conn' = [conn EXCEPT ![c] = r.txn]
             /\ Step(t, "main", "alter", r.err,
                     IF r.err = "none" THEN NextRule(t) ELSE Raises(r.err))
        ELSE /\ conn' = conn
             /\ Set(t, NextRule(t))
  /\ UNCHANGED <<committed, rows, partitionCreationHistory, lockOwner>>

\* ------------- setupDatabase, teardownDatabase, createPartitions(config, logger)
Reversed(seq) == [i \in 1..Len(seq) |-> seq[Len(seq) + 1 - i]]

\* databaseDependenciesForSetup.keys(), which getOrderedSetupList() starts from when
\* whichTables is None: the dict decides the order; three of the possible ones
keysOrders ==
  { textualOrder, Reversed(textualOrder),
    <<"DailyCrashesTable">> \o SelectSeq(textualOrder, LAMBDA c : c # "DailyCrashesTable") }

\* the dates config.startDate and config.endDate are taken from
ConfigDates == {0, MaxDay - 1, MaxDay}

\* socorro_util.reportExceptionAndAbort(logger): the run ends
reportExceptionAndAbort == Raises("SystemExit")

\* socorro_util.reportExceptionAndContinue(logger): logged, the function goes on
reportExceptionAndContinue == Returns

\* the views that select from the object of class cls
ViewsOn(cls) ==
  {ObjName(v) : v \in {c \in {"BranchesView"} : ObjName(cls) \in creationSqlRefs(c)}}

\* databaseConnection, databaseCursor = connectToDatabase(config, logger);
\* getOrderedSetupList()
BeginSetupDatabase(t, keys) ==
  /\ th[t].pc = "idle" /\ th[t].ops < MaxOps
  /\ conn[<<t, Connected>>] = CleanTxn
  /\ Set(t, [ pc |-> "setup_create", kind |-> "setupDatabase", cur |-> Connected,
              ops |-> th[t].ops + 1, order |-> getOrderedSetupList(keys), ti |-> 1,
              cache0 |-> partitionCreationHistory, seen0 |-> Visible(<<t, Connected>>),
              failed0 |-> FALSE ])
  /\ UNCHANGED <<committed, rows, conn, partitionCreationHistory, lockOwner>>

\* every creation committed on its own
SetupCreateSelf_Autocommit(t) ==
  /\ th[t].pc = "setup_create"
  /\ LET stmt == CreateTable(CurrentObject(t), creationSqlRefs(th[t].order[th[t].ti]))
         r == Run(CpConn(t), stmt)
     IN /\ ~Blocked(CpConn(t), stmt)
        /\ committed' = IF r.err = "none" THEN committed \cup r.txn.pend ELSE committed
        /\ conn' = [conn EXCEPT ![CpConn(t)] = IF r.err = "none" THEN CleanTxn ELSE r.txn]
        /\ Step(t, th[t].cur, "create", r.err,
                IF r.err # "none" THEN [pc |-> "setup_rollback", err |-> r.err, cause |-> r.cause]
                ELSE IF th[t].ti < Len(th[t].order) THEN [ti |-> th[t].ti + 1]
                ELSE [pc |-> "setup_commit"])
  /\ UNCHANGED <<rows, partitionCreationHistory, lockOwner>>

\* aDatabaseObject._createSelf(databaseCursor), inside the try block
SetupCreateSelf(t) ==
  /\ th[t].pc = "setup_create"
  /\ LET stmt == CreateTable(CurrentObject(t), creationSqlRefs(th[t].order[th[t].ti]))
         r == Run(CpConn(t), stmt)
     IN /\ ~Blocked(CpConn(t), stmt)
        /\ conn' = [conn EXCEPT ![CpConn(t)] = r.txn]
        /\ Step(t, th[t].cur, "create", r.err,
                IF r.err # "none" THEN [pc |-> "setup_rollback", err |-> r.err, cause |-> r.cause]
                ELSE IF th[t].ti < Len(th[t].order) THEN [ti |-> th[t].ti + 1]
                ELSE [pc |-> "setup_commit"])
  /\ UNCHANGED <<committed, rows, partitionCreationHistory, lockOwner>>

\* databaseConnection.commit() after the loop
SetupCommit(t) ==
  /\ th[t].pc = "setup_commit"
  /\ Commit(CpConn(t))
  /\ Step(t, th[t].cur, "commit", "none", Returns)
  /\ UNCHANGED <<partitionCreationHistory, lockOwner>>

\* except Exception: databaseConnection.rollback(); reportExceptionAndAbort
SetupRollback(t) ==
  /\ th[t].pc = "setup_rollback"
  /\ Rollback(CpConn(t))
  /\ Step(t, th[t].cur, "rollback", "none", reportExceptionAndAbort)
  /\ UNCHANGED <<partitionCreationHistory, lockOwner>>

BeginTeardownDatabase(t, keys) ==
  /\ th[t].pc = "idle" /\ th[t].ops < MaxOps
  /\ conn[<<t, Connected>>] = CleanTxn
  /\ Set(t, [ pc |-> "teardown_drop", kind |-> "teardownDatabase", cur |-> Connected,
              ops |-> th[t].ops + 1, order |-> getOrderedSetupList(keys), ti |-> 1,
              cache0 |-> partitionCreationHistory, seen0 |-> Visible(<<t, Connected>>),
              failed0 |-> FALSE ])
  /\ UNCHANGED <<committed, rows, conn, partitionCreationHistory, lockOwner>>

\* aDatabaseObject.drop(databaseCursor), inside the try block; the database may
\* refuse the statement (fails)
TeardownDrop(t) ==
  /\ th[t].pc = "teardown_drop"
  /\ \E fails \in BOOLEAN :
       LET cls == th[t].order[th[t].ti]
           r == IF dropSql(cls) = "pass" THEN Ok(conn[CpConn(t)])
                ELSE IF fails THEN Fail("OperationalError", "drop_failed", conn[CpConn(t)])
                ELSE Run(CpConn(t), DropIfExists(ObjName(cls), ViewsOn(cls)))
       IN /\ dropSql(cls) = "pass" => ~fails
          /\ conn' = [conn EXCEPT ![CpConn(t)] = r.txn]
          /\ Step(t, th[t].cur, dropSql(cls), r.err,
                  IF r.err # "none"
                  THEN [pc |-> "teardown_rollback", err |-> r.err, cause |-> r.cause]
                  ELSE IF th[t].ti < Len(th[t].order) THEN [ti |-> th[t].ti + 1]
                  ELSE [pc |-> "teardown_commit"])
  /\ UNCHANGED <<committed, rows, partitionCreationHistory, lockOwner>>

\* databaseConnection.commit() after the loop
TeardownCommit(t) ==
  /\ th[t].pc = "teardown_commit"
  /\ Commit(CpConn(t))
  /\ Step(t, th[t].cur, "commit", "none", [pc |-> "teardown_reset"])
  /\ UNCHANGED <<partitionCreationHistory, lockOwner>>

\* partitionCreationHistory = set()
TeardownReset(t) ==
  /\ th[t].pc = "teardown_reset"
  /\ partitionCreationHistory' = {}
  /\ Step(t, "-", "reset", "none", Returns)
  /\ UNCHANGED <<committed, rows, conn, lockOwner>>

\* except: databaseConnection.rollback(); reportExceptionAndContinue
TeardownRollback(t) ==
  /\ th[t].pc = "teardown_rollback"
  /\ Rollback(CpConn(t))
  /\ Step(t, th[t].cur, "rollback", "none", reportExceptionAndContinue)
  /\ UNCHANGED <<partitionCreationHistory, lockOwner>>

\* createPartitions(config, logger): connectToDatabase
BeginModuleCreatePartitions(t, startDate, endDate) ==
  /\ th[t].pc = "idle" /\ th[t].ops < MaxOps
  /\ conn[<<t, Connected>>] = CleanTxn
  /\ Set(t, [ pc |-> "module_iterator", kind |-> "module_createPartitions",
              cur |-> Connected, ret |-> "module", ops |-> th[t].ops + 1, ci |-> 1,
              minDate |-> startDate, maxDate |-> endDate,
              cache0 |-> partitionCreationHistory, seen0 |-> Visible(<<t, Connected>>),
              failed0 |-> FALSE ])
  /\ UNCHANGED <<committed, rows, conn, partitionCreationHistory, lockOwner>>

\* weekIterator = mondayPairsIteratorFactory(config.startDate, config.endDate);
\* aDatabaseObject = aDatabaseObjectClass(logger=logger), then its createPartitions
ModuleIterator(t) ==
  /\ th[t].pc = "module_iterator"
  /\ IF th[t].maxDate < th[t].minDate
     THEN Step(t, "-", "mondayPairsIteratorFactory", "ValueError",
               [pc |-> "module_rollback", err |-> "ValueError", cause |-> "range"])
     ELSE Step(t, "-", "mondayPairsIteratorFactory", "none",
               [ pc |-> "createPartitions",
                 cls |-> databaseObjectClassListForWeeklyPartitions[th[t].ci],
                 items |-> mondayPairsIteratorFactory(th[t].minDate, th[t].maxDate) ])
  /\ UNCHANGED <<committed, rows, conn, partitionCreationHistory, lockOwner>>

\* the run stops after the first class of the list
ModuleCommit_FirstClassOnly(t) ==
  /\ th[t].pc = "module_commit"
  /\ Commit(CpConn(t))
  /\ Step(t, th[t].cur, "commit", "none", Returns)
  /\ UNCHANGED <<partitionCreationHistory, lockOwner>>

\* databaseConnection.commit(), inside the loop over the classes
ModuleCommit(t) ==
  /\ th[t].pc = "module_commit"
  /\ Commit(CpConn(t))
  /\ Step(t, th[t].cur, "commit", "none",
          IF th[t].ci < Len(databaseObjectClassListForWeeklyPartitions)
          THEN [pc |-> "module_iterator", ci |-> th[t].ci + 1]
          ELSE Returns)
  /\ UNCHANGED <<partitionCreationHistory, lockOwner>>

\* except: databaseConnection.rollback(); reportExceptionAndAbort
ModuleRollback(t) ==
  /\ th[t].pc = "module_rollback"
  /\ Rollback(CpConn(t))
  /\ Step(t, th[t].cur, "rollback", "none", reportExceptionAndAbort)
  /\ UNCHANGED <<partitionCreationHistory, lockOwner>>

\* the process ends and a new one starts: the cache is empty again and the
\* connections of the old process are gone, their transactions rolled back
ProcessRestart ==
  /\ \A t \in Threads : th[t].pc = "idle"
  /\ partitionCreationHistory # {} \/ \E c \in Conns : conn[c] # CleanTxn
  /\ partitionCreationHistory' = {}
  /\ conn' = [c \in Conns |-> CleanTxn]
  /\ UNCHANGED <<committed, rows, lockOwner, th, ttm>>

\* ------------------------------------- mondayPairsIteratorFactory, step by step
\* the dates a caller hands to mondayPairsIteratorFactory
IterDates == 0..(2 * MaxDay)

\* a caller calls the factory and iterates what it returns, twice
BeginIterate(t, minDate, maxDate) ==
  /\ th[t].pc = "idle" /\ th[t].ops < MaxOps
  /\ Set(t, [ pc |-> "factory", kind |-> "iterate", minDate |-> minDate, maxDate |-> maxDate,
              ops |-> th[t].ops + 1 ])
  /\ UNCHANGED <<committed, rows, conn, partitionCreationHistory, lockOwner>>

\* the range is not checked: the generator is returned whatever the dates
Factory_NoCheck(t) ==
  /\ th[t].pc = "factory"
  /\ Step(t, "-", "mondayPairsIteratorFactory", "none", [pc |-> "gen_created"])
  /\ UNCHANGED <<committed, rows, conn, partitionCreationHistory, lockOwner>>

\* the body of mondayPairsIteratorFactory: the checks, then return anIterator(),
\* a generator whose body has not started (the arguments are dates: no TypeError)
Factory(t) ==
  /\ th[t].pc = "factory"
  /\ IF th[t].maxDate < th[t].minDate
     THEN Step(t, "-", "mondayPairsIteratorFactory", "ValueError", Raises("ValueError"))
     ELSE Step(t, "-", "mondayPairsIteratorFactory", "none", [pc |-> "gen_created"])
  /\ UNCHANGED <<committed, rows, conn, partitionCreationHistory, lockOwner>>

\* the generator starts one day late: on the Tuesday before minDate
GenNext_Tuesday(t) ==
  /\ th[t].pc \in {"gen_created", "gen_suspended"}
  /\ LET aDate == IF th[t].pc = "gen_created"
                  THEN th[t].minDate - weekday(th[t].minDate) + 1
                  ELSE th[t].aDate
     IN IF aDate <= th[t].maxDate
        THEN Step(t, "-", "next", "none",
                  [ pc |-> "gen_suspended", aDate |-> aDate + 7,
                    first |-> Append(th[t].first, <<aDate, aDate + 7>>) ])
        ELSE Step(t, "-", "next", "StopIteration", [pc |-> "gen_finished"])
  /\ UNCHANGED <<committed, rows, conn, partitionCreationHistory, lockOwner>>

\* next() on the generator during the caller's first iteration: the body runs from
\* its start, or from the yield it is suspended at, to the next yield or to its end
GenNext(t) ==
  /\ th[t].pc \in {"gen_created", "gen_suspended"}
  /\ LET aDate == IF th[t].pc = "gen_created"
                  THEN th[t].minDate - weekday(th[t].minDate)
                  ELSE th[t].aDate
     IN IF aDate <= th[t].maxDate
        THEN Step(t, "-", "next", "none",
                  [ pc |-> "gen_suspended", aDate |-> aDate + 7,
                    first |-> Append(th[t].first, <<aDate, aDate + 7>>) ])
        ELSE Step(t, "-", "next", "StopIteration", [pc |-> "gen_finished"])
  /\ UNCHANGED <<committed, rows, conn, partitionCreationHistory, lockOwner>>

\* the caller iterates the same object again: next() on a generator whose body
\* has ended raises StopIteration at once, so the second iteration yields nothing
IterateAgain(t) ==
  /\ th[t].pc = "gen_finished"
  /\ Step(t, "-", "next", "StopIteration", Returns @@ [second |-> <<>>])
  /\ UNCHANGED <<committed, rows, conn, partitionCreationHistory, lockOwner>>

\* ------------------------------------------------------------ the callers
\* the call is over: the thread is between calls again
Return(t) ==
  /\ th[t].pc = "done"
  /\ Set(t, IdleLocals @@
            [created |-> IF th[t].kind = "create" THEN th[t].created \cup {th[t].cls}
                         ELSE th[t].created])
  /\ UNCHANGED <<committed, rows, conn, partitionCreationHistory, lockOwner>>

\* between calls the caller ends the transaction of one of its connections
CallerCommit(t, cur) ==
  /\ th[t].pc = "idle"
  /\ conn[<<t, cur>>] # CleanTxn
  /\ Commit(<<t, cur>>)
  /\ UNCHANGED <<partitionCreationHistory, lockOwner, th, ttm>>

CallerRollback(t, cur) ==
  /\ th[t].pc = "idle"
  /\ conn[<<t, cur>>] # CleanTxn
  /\ Rollback(<<t, cur>>)
  /\ UNCHANGED <<partitionCreationHistory, lockOwner, th, ttm>>

\* another process drops a partition
ExternalDrop(name) ==
  /\ name \in committed \ CatalogNames
  /\ \A c \in Conns : \A x \in conn[c].prows : x[1] # name
  /\ committed' = committed \ {name}
  /\ rows' = {x \in rows : x[1] # name}
  /\ UNCHANGED <<conn, partitionCreationHistory, lockOwner, th, ttm>>

\* --------------------------------------- the task manager's operations
\* start(): the worker threads, then the queuing thread
Start ==
  /\ ttm.main = "constructed"
  /\ ttm' = [ttm EXCEPT !.main = "started",
                        !.thread_list = [w \in 1..ttm.number_of_threads |-> Waiting],
                        !.queuing_thread = "queuing"]
  /\ UNCHANGED schemaVars

\* the queuing thread takes the next job of the job source iterator and puts it
\* in the queue, waiting while the queue is full
QueueJob ==
  /\ ttm.queuing_thread = "queuing" /\ ~ttm.quit
  /\ ttm.yielded < ttm.jobs
  /\ Len(ttm.task_queue) < ttm.maximum_queue_size
  /\ ttm' = [ttm EXCEPT !.task_queue = Append(@, Task(ttm.yielded)),
                        !.yielded = @ + 1]
  /\ UNCHANGED schemaVars

\* the iterator is exhausted, or quit was set: the queuing thread goes on to end
\* the workers
QueueEnd ==
  /\ ttm.queuing_thread = "queuing"
  /\ ttm.quit \/ ttm.yielded = ttm.jobs
  /\ ttm' = [ttm EXCEPT !.queuing_thread = "killing"]
  /\ UNCHANGED schemaVars

\* _kill_worker_threads(): one (None, None) per worker thread
KillWorker ==
  /\ ttm.queuing_thread = "killing"
  /\ ttm.killed < ttm.number_of_threads
  /\ Len(ttm.task_queue) < ttm.maximum_queue_size
  /\ ttm' = [ttm EXCEPT !.task_queue = Append(@, NoneNone), !.killed = @ + 1]
  /\ UNCHANGED schemaVars

\* _kill_worker_threads(): the worker threads joined; the queuing thread ends
JoinWorkers ==
  /\ ttm.queuing_thread = "killing"
  /\ ttm.killed = ttm.number_of_threads
  /\ \A w \in 1..Len(ttm.thread_list) : ~ttm.thread_list[w].alive
  /\ ttm' = [ttm EXCEPT !.queuing_thread = "dead"]
  /\ UNCHANGED schemaVars

\* the worker reads the head of the queue and leaves it there
WorkerGet_Peek(w) ==
  /\ w \in 1..Len(ttm.thread_list)
  /\ ttm.thread_list[w] = Waiting
  /\ ttm.task_queue # <<>>
  /\ LET job == Head(ttm.task_queue)
     IN ttm' = [ttm EXCEPT !.task_queue = IF job = NoneNone THEN Tail(@) ELSE @,
                          !.thread_list[w] = IF job = NoneNone THEN Ended ELSE Running(job.x)]
  /\ UNCHANGED schemaVars

\* a worker thread: task_queue.get(); (None, None) ends the thread
WorkerGet(w) ==
  /\ w \in 1..Len(ttm.thread_list)
  /\ ttm.thread_list[w] = Waiting
  /\ ttm.task_queue # <<>>
  /\ LET job == Head(ttm.task_queue)
     IN ttm' = [ttm EXCEPT !.task_queue = Tail(@),
                          !.thread_list[w] = IF job = NoneNone THEN Ended ELSE Running(job.x)]
  /\ UNCHANGED schemaVars

\* an exception of task_func ends the worker thread
WorkerTask_Dies(w) ==
  /\ w \in 1..Len(ttm.thread_list)
  /\ ttm.thread_list[w].busy
  /\ LET raises == Len(ttm.calls) + 1 = ttm.raiseAt
     IN ttm' = [ttm EXCEPT !.calls = Append(@, ttm.thread_list[w].x),
                          !.my_list = IF raises THEN @ ELSE Append(@, ttm.thread_list[w].x),
                          !.thread_list[w] = IF raises THEN Ended ELSE Waiting]
  /\ UNCHANGED schemaVars

\* a worker thread: task_func(*args), here insert_into_list; an exception it
\* raises is logged and the thread goes back to the queue
WorkerTask(w) ==
  /\ w \in 1..Len(ttm.thread_list)
  /\ ttm.thread_list[w].busy
  /\ LET raises == Len(ttm.calls) + 1 = ttm.raiseAt
     IN ttm' = [ttm EXCEPT !.calls = Append(@, ttm.thread_list[w].x),
                          !.my_list = IF raises THEN @ ELSE Append(@, ttm.thread_list[w].x),
                          !.thread_list[w] = Waiting]
  /\ UNCHANGED schemaVars

\* stop(): quit = True, then wait_for_completion()
Stop ==
  /\ ttm.main = "started"
  /\ ttm' = [ttm EXCEPT !.main = "stopping", !.quit = TRUE]
  /\ UNCHANGED schemaVars

\* stop() returning without waiting for the queuing thread
StopReturns_NoJoin ==
  /\ ttm.main = "stopping"
  /\ ttm' = [ttm EXCEPT !.main = "stopped"]
  /\ UNCHANGED schemaVars

\* wait_for_completion(): the queuing thread joined; stop() returns
StopReturns ==
  /\ ttm.main = "stopping"
  /\ ttm.queuing_thread = "dead"
  /\ ttm' = [ttm EXCEPT !.main = "stopped"]
  /\ UNCHANGED schemaVars

\* ------------------------------------------------------ specifications
Kwargs == {[k \in {} |-> 0]} \cup {[k \in {"date_processed"} |-> d] : d \in Dates}

InsertSteps(t) ==
  \/ InsertKey(t) \/ InsertSavepoint(t) \/ InsertExecute(t) \/ InsertRelease(t)
  \/ InsertRollback(t) \/ InsertCommit(t) \/ InsertAlternate(t) \/ InsertRetry(t)

CreatePartitionsSteps(t) ==
  \/ CreatePartitions(t) \/ OwnCheck(t) \/ OwnSavepoint(t) \/ OwnCreate(t) \/ OwnMark(t)
  \/ OwnRelease(t) \/ OwnRollback(t) \/ OwnCommit(t) \/ OwnEnd(t)

CreateSteps(t) ==
  \/ CreateSavepoint(t) \/ CreateSelf(t) \/ CreateRelease(t)
  \/ CreateRollback(t) \/ CreateCommit(t)

\* one thread of one process: every operation, and the caller ending the
\* transactions of its connections between calls
Next ==
  \/ \E cls \in PartitionedClasses, kwargs \in Kwargs, row \in Rows :
       BeginInsert("t1", cls, kwargs, row)
  \/ \E cls \in PartitionedClasses, minDate \in Dates, maxDate \in Dates :
       BeginCreatePartitions("t1", cls, minDate, maxDate)
  \/ \E cls \in Classes, cur \in Cursors : BeginCreate("t1", cls, cur)
  \/ InsertSteps("t1")
  \/ CreatePartitionsSteps("t1")
  \/ CreateSteps("t1")
  \/ Return("t1")
  \/ \E cur \in Cursors : CallerCommit("t1", cur)
  \/ \E cur \in Cursors : CallerRollback("t1", cur)

Spec == Init /\ [][Next]_vars

\* the same with another process dropping partitions behind the cache's back
NextEnv ==
  \/ Next
  \/ \E name \in committed : ExternalDrop(name)

SpecEnv == Init /\ [][NextEnv]_vars

\* every thread runs createPartitions once, on its own connection, concurrently
NextConc ==
  \E t \in Threads :
    \/ \E cls \in PartitionedClasses, minDate \in Dates, maxDate \in Dates :
         th[t].ops = 0 /\ BeginCreatePartitions(t, cls, minDate, maxDate)
    \/ CreatePartitionsSteps(t)
    \/ Return(t)

SpecConc == Init /\ [][NextConc]_vars

SetupSteps(t) == SetupCreateSelf(t) \/ SetupCommit(t) \/ SetupRollback(t)

TeardownSteps(t) ==
  TeardownDrop(t) \/ TeardownCommit(t) \/ TeardownReset(t) \/ TeardownRollback(t)

ModuleSteps(t) == ModuleIterator(t) \/ ModuleCommit(t) \/ ModuleRollback(t)

\* a database that is empty, has part of the catalog, has all of it, or has all of
\* it and the partitions of the first week
InitAdmin ==
  /\ committed \in { {}, CatalogNames, SetupNames,
                     SetupNames \cup
                       { partitionNameOf(databaseObjectClassListForWeeklyPartitions[i], <<0, 7>>) :
                           i \in 1..Len(databaseObjectClassListForWeeklyPartitions) } }
  /\ rows = {}
  /\ conn = [c \in Conns |-> CleanTxn]
  /\ partitionCreationHistory = {}
  /\ lockOwner = NoThread
  /\ th = [t \in Threads |-> IdleLocals @@ [ops |-> 0, created |-> {}]]
  /\ ttm = ThreadedTaskManager(1, 1, 0, 0)

\* the classes create is called with below: a table with one precursor, the view,
\* and the table with the longest chain of precursors
CreatedClasses == {"JobsTable", "BranchesView", "TopCrashByUrlSignatureTable"}

\* the maintenance runs of one process after another: setup, teardown, creation
\* of partitions ahead of time, and create for objects of the catalog
NextAdmin ==
  \/ \E keys \in keysOrders : BeginSetupDatabase("t1", keys)
  \/ SetupSteps("t1")
  \/ \E keys \in keysOrders : BeginTeardownDatabase("t1", keys)
  \/ TeardownSteps("t1")
  \/ \E startDate \in ConfigDates, endDate \in ConfigDates :
       BeginModuleCreatePartitions("t1", startDate, endDate)
  \/ ModuleSteps("t1")
  \/ CreatePartitionsSteps("t1")
  \/ \E cls \in CreatedClasses : BeginCreate("t1", cls, "main")
  \/ CreateSteps("t1")
  \/ CallerCommit("t1", "main")
  \/ CallerRollback("t1", "main")
  \/ Return("t1")
  \/ ProcessRestart

SpecAdmin == InitAdmin /\ [][NextAdmin]_vars

\* the operations of one thread of one process, with teardownDatabase among them
NextCache ==
  \/ Next
  \/ BeginTeardownDatabase("t1", textualOrder)
  \/ TeardownSteps("t1")

SpecCache == Init /\ [][NextCache]_vars

\* the operations of one thread, with a database that may refuse the creation of
\* a partition
NextFault ==
  \/ Next
  \/ OwnCreateRefused("t1")

SpecFault == Init /\ [][NextFault]_vars

\* a manager for every configuration, job source and failing call
InitTasks ==
  /\ committed = {} /\ rows = {}
  /\ conn = [c \in Conns |-> CleanTxn]
  /\ partitionCreationHistory = {}
  /\ lockOwner = NoThread
  /\ th = [t \in Threads |-> IdleLocals @@ [ops |-> 0, created |-> {}]]
  /\ \E number_of_threads \in 1..MaxWorkers, maximum_queue_size \in 1..MaxQueue,
        jobs \in 0..MaxJobs, raiseAt \in 0..MaxJobs :
       ttm = ThreadedTaskManager(number_of_threads, maximum_queue_size, jobs, raiseAt)

\* the main thread, the queuing thread and the worker threads of one manager
NextTasks ==
  \/ Start
  \/ QueueJob
  \/ QueueEnd
  \/ KillWorker
  \/ JoinWorkers
  \/ \E w \in 1..MaxWorkers : WorkerGet(w)
  \/ \E w \in 1..MaxWorkers : WorkerTask(w)
  \/ Stop
  \/ StopReturns

SpecTasks == InitTasks /\ [][NextTasks]_vars

\* a caller of mondayPairsIteratorFactory, for every pair of dates
NextDates ==
  \/ \E minDate \in IterDates, maxDate \in IterDates : BeginIterate("t1", minDate, maxDate)
  \/ Factory("t1")
  \/ GenNext("t1")
  \/ IterateAgain("t1")
  \/ Return("t1")

SpecDates == Init /\ [][NextDates]_vars

\* the classes create is called with below: two tables without precursors and the
\* table whose chain of precursors holds both
ChainClasses == {"UrlDimsTable", "OsDimsTable", "TopCrashByUrlSignatureTable"}

\* create for objects of one chain of the catalog, on either connection, the
\* caller ending its transactions between the calls
NextCreate ==
  \/ \E cls \in ChainClasses, cur \in Cursors : BeginCreate("t1", cls, cur)
  \/ CreateSteps("t1")
  \/ \E cur \in Cursors : CallerCommit("t1", cur)
  \/ \E cur \in Cursors : CallerRollback("t1", cur)
  \/ Return("t1")

SpecCreate == InitAdmin /\ [][NextCreate]_vars

\* a database with the tables processors and jobs and any of the indexes of jobs,
\* old and new
InitUpdate ==
  /\ \E S \in SUBSET JobsIndexes :
       committed = {ObjName("ProcessorsTable"), ObjName("JobsTable")} \cup {<<i, 0>> : i \in S}
  /\ rows = {}
  /\ conn = [c \in Conns |-> CleanTxn]
  /\ partitionCreationHistory = {}
  /\ lockOwner = NoThread
  /\ th = [t \in Threads |-> IdleLocals @@ [ops |-> 0, created |-> {}, indexesList |-> {}]]
  /\ ttm = ThreadedTaskManager(1, 1, 0, 0)

\* updateDefinition of the jobs table, again and again on one connection, whose
\* transaction the caller commits or rolls back between the calls
NextUpdate ==
  \/ BeginUpdateDefinition("t1")
  \/ UpdateDefinitionStep("t1")
  \/ Return("t1")
  \/ CallerCommit("t1", "main")
  \/ CallerRollback("t1", "main")

SpecUpdate == InitUpdate /\ [][NextUpdate]_vars

\* ================================================================ claims
\* the call of kind k by thread t has ended
Done(t, k) == th[t].pc = "done" /\ th[t].kind = k

\* the window an insert computes from its date_processed
InsertWindow(t) ==
  mondayPairsIteratorFactory(th[t].kwargs["date_processed"], th[t].kwargs["date_processed"])[1]

\* the classes whose partitions createPartitions of class cls creates, in order
PartitionClasses(cls) ==
  {getOrderedPartitionList(<<cls>>)[i] : i \in 1..Len(getOrderedPartitionList(<<cls>>))}

\* the partitions an insert of thread t needs: its own and the prerequisite ones
NeededPartitions(t) == {partitionNameOf(c, InsertWindow(t)) : c \in PartitionClasses(th[t].cls)}

\* the parent tables of those partitions
ParentTables(cls) == {ObjName(c) : c \in PartitionClasses(cls)}

\* the trace entries of the insert statements of thread t's call, in order
InsertAttempts(t) == SelectSeq(th[t].trace, LAMBDA e : e.k = "insert")

\* an insert with a partitioning value, on a usable transaction, whose target
\* partition does not exist when the call starts, while the parent tables do
MissingPartitionInsert(t) ==
  /\ Done(t, "insert") /\ HasPartitionKey(th[t].kwargs)
  /\ ~th[t].failed0
  /\ th[t].pname \notin th[t].seen0
  /\ ParentTables(th[t].cls) \subseteq th[t].seen0

\* C1: an insert whose partition does not exist yet (parents existing) ends with the
\* partition and its prerequisite partitions committed and the row stored in the
\* partition, after exactly one createPartitions call and exactly two executions of
\* the insert statement (the first attempt and one retry).
C1_InsertWithFallback ==
  \A t \in Threads :
    MissingPartitionInsert(t) =>
      /\ th[t].result = "ok"
      /\ NeededPartitions(t) \subseteq committed
      /\ <<th[t].pname, th[t].row>> \in VisibleRows(<<t, "main">>)
      /\ Count(t, "createPartitions") = 1
      /\ Count(t, "insert") = 2

C1_Witness ==
  /\ MissingPartitionInsert("t1")
  /\ th["t1"].cls = "ExtensionsTable"
  /\ th["t1"].result = "ok"
  /\ Count("t1", "createPartitions") = 1
  /\ Count("t1", "create") = 2

Copies(name) ==
  Cardinality({c \in Conns : name \in conn[c].pend}) + (IF name \in committed THEN 1 ELSE 0)

\* C3: a call of DatabaseObject.create on a connection whose transaction is usable
\* raises nothing, first call or repeated, same connection or another one, and the
\* object exists exactly once afterwards, visible on the connection used.
C3_IdempotentCreate ==
  \A t \in Threads :
    (Done(t, "create") /\ ~th[t].failed0) =>
      /\ th[t].result = "ok"
      /\ ObjName(th[t].cls) \in Visible(<<t, th[t].cur>>)
      /\ Copies(ObjName(th[t].cls)) = 1

C3_Witness ==
  /\ Done("t1", "create") /\ th["t1"].again /\ th["t1"].cur = "alt"
  /\ th["t1"].cls = "JobsTable"
  /\ th["t1"].result = "ok"
  /\ Count("t1", "rollback_to") = 2

\* C4: the create protocol absorbs a failed creation statement only when the
\* failure is 'the definition already exists'.
C4_OnlyAlreadyExistsAbsorbed ==
  \A t \in Threads :
    th[t].pc \in {"own_rollback", "create_rollback"} => th[t].cause = "duplicate"

\* the exception class of the first insert attempt of thread t's call
FirstAttempt(t) == IF InsertAttempts(t) = <<>> THEN "none" ELSE InsertAttempts(t)[1].err

\* the call went through the fallback path: rollback to the savepoint, creation for
\* the one computed window, one retry
FellBack(t) ==
  /\ Count(t, "rollback_release") >= 1
  /\ Count(t, "createPartitions") = 1
  /\ th[t].items = <<InsertWindow(t)>>
  /\ Len(InsertAttempts(t)) = 2

C6_BoundedRetry ==
  \A t \in Threads :
    th[t].kind = "insert" =>
      /\ Len(InsertAttempts(t)) <= 2
      /\ Count(t, "createPartitions") <= 1
      /\ Count(t, "alternateCursorFunction") <= 1
      /\ Len(InsertAttempts(t)) = 2 =>
           /\ th[t].pc = "done"
           /\ th[t].result = (IF InsertAttempts(t)[2].err = "none" THEN "ok"
                              ELSE InsertAttempts(t)[2].err)
      /\ Len(th[t].trace) <= 7 + 6 * Len(th[t].order)
      /\ th[t].pc = "own_create" => ~Blocked(CpConn(t), partitionCreationSql(t))

C6_Witness ==
  /\ Done("t1", "insert")
  /\ Len(InsertAttempts("t1")) = 2
  /\ InsertAttempts("t1")[2].err = "ProgrammingError"
  /\ th["t1"].result = "ProgrammingError"
  /\ Count("t1", "createPartitions") = 1

\* C7: an insert without date_processed raises PartitionControlParameterRequired
\* with no step made: no statement on either cursor, no alternate cursor, no cache
\* access; the cache and both transactions are as they were.
C7_MissingPartitionKey ==
  \A t \in Threads :
    (Done(t, "insert") /\ ~HasPartitionKey(th[t].kwargs)) =>
      /\ th[t].result = "PartitionControlParameterRequired"
      /\ th[t].trace = <<>>
      /\ partitionCreationHistory = th[t].cache0
      /\ Visible(<<t, "main">>) = th[t].seen0

C7_Witness ==
  /\ Done("t1", "insert") /\ ~HasPartitionKey(th["t1"].kwargs)
  /\ th["t1"].result = "PartitionControlParameterRequired"
  /\ partitionCreationHistory # {}

\* C8: an insert whose partition is marked in the cache but has been dropped by
\* another process still ends with the partition created again and the row stored.
C8_StaleCacheStillCreates ==
  \A t \in Threads :
    (MissingPartitionInsert(t) /\ th[t].pname \in th[t].cache0
       /\ NeededPartitions(t) \ {th[t].pname} \subseteq th[t].seen0) =>
      /\ th[t].pname \in committed
      /\ <<th[t].pname, th[t].row>> \in VisibleRows(<<t, "main">>)

\* C9: when _createOwnPartition has processed a window without raising, the
\* statement having created the partition or having found it already there, the
\* partition's name is in the cache.
C9_MarkMeansPresent ==
  \A t \in Threads :
    (th[t].pc = "own_end" /\ th[t].cause \in {"none", "duplicate"}) =>
      CurrentPartition(t) \in partitionCreationHistory

\* C10: a thread about to read the cache (partitionWasCreated) or to add to it
\* (markPartitionCreated) holds partitionCreationLock.
C10_CacheAccessUnderLock ==
  \A t \in Threads :
    th[t].pc \in {"own_check", "own_mark"} => lockOwner = t

\* the steps of _createOwnPartition that are a database statement or a commit
DatabaseRoundTrips == {"own_savepoint", "own_create", "own_release", "own_rollback", "own_commit"}

\* C11: a thread about to execute a database statement or a commit of
\* _createOwnPartition does not hold partitionCreationLock, and a thread about to
\* create a partition that no other connection is creating never has to wait:
\* neither for the lock nor in the database.
C11_LockNotHeldAcrossDatabase ==
  \A t \in Threads :
    /\ th[t].pc \in DatabaseRoundTrips => lockOwner # t
    /\ ( /\ th[t].pc = "own_create"
         /\ \A c \in Conns \ {CpConn(t)} : CurrentPartition(t) \notin conn[c].pend )
       => /\ lockOwner \in {NoThread, t}
          /\ ~Blocked(CpConn(t), partitionCreationSql(t))

\* one thread is between its creation statement and its commit while the other is
\* about to create an unrelated partition
C11_Witness ==
  /\ th["t1"].pc = "own_release" /\ th["t2"].pc = "own_create"
  /\ CurrentPartition("t1") \in conn[<<"t1", "main">>].pend
  /\ CurrentPartition("t1") # CurrentPartition("t2")
  /\ CurrentPartition("t1")[1] = CurrentPartition("t2")[1]

\* every pair is seven days long and starts where the pair before it ends
Contiguous(pairs) ==
  /\ \A i \in 1..Len(pairs) : pairs[i][2] = pairs[i][1] + 7
  /\ \A i \in 2..Len(pairs) : pairs[i][1] = pairs[i - 1][2]

C14_Restartable ==
  \A t \in Threads :
    (Done(t, "iterate") /\ th[t].result = "ok") => th[t].second = th[t].first

\* C15: when createPartitions is about to execute the creation statement of a
\* partition, every partition that statement refers to (the same window's partition
\* of each table it depends on) has had its creation attempted: earlier in this
\* call, or by the earlier call that marked it in the cache; and the tables it
\* depends on come earlier in the order the call works through.
C15_PartitionDependencyOrder ==
  \A t \in Threads :
    th[t].pc = "own_create" =>
      LET T == th[t].order[th[t].ti]
          x == th[t].items[th[t].wi]
      IN /\ \A n \in partitionCreationRefs(T, x) :
              n[2] # 0 => n \in th[t].attempted \cup partitionCreationHistory
         /\ T \in DOMAIN databaseDependenciesForPartition =>
              \A j \in 1..Len(databaseDependenciesForPartition[T]) :
                \E i \in 1..(th[t].ti - 1) :
                  th[t].order[i] = databaseDependenciesForPartition[T][j]

\* the second window's extensions partition is about to be created, after both
\* windows' reports partitions were attempted in this call
C15_Witness ==
  /\ th["t1"].pc = "own_create" /\ th["t1"].kind = "createPartitions"
  /\ th["t1"].order[th["t1"].ti] = "ExtensionsTable" /\ th["t1"].wi = 2
  /\ {partitionNameOf("ReportsTable", th["t1"].items[i]) : i \in 1..2} \subseteq th["t1"].attempted

\* the partitions of the table of class cls among the names in the set names
PartitionsOf(cls, names) == {n \in names : n[1] = className(cls) /\ n[2] # 0}

\* C16: when a run of the module-level createPartitions over a valid range has
\* ended, in a database that held the whole catalog when it began, it has raised
\* nothing, and each listed table has exactly the partitions it had before the run
\* and one for each window of the range, each of them once: after two runs with
\* overlapping ranges, one partition per window of the union.
C16_PrecreationIdempotent ==
  \A t \in Threads :
    ( /\ Done(t, "module_createPartitions")
      /\ SetupNames \subseteq th[t].seen0
      /\ th[t].minDate <= th[t].maxDate ) =>
      /\ th[t].result = "ok"
      /\ \A i \in 1..Len(databaseObjectClassListForWeeklyPartitions) :
           LET cls == databaseObjectClassListForWeeklyPartitions[i]
               windows == mondayPairsIteratorFactory(th[t].minDate, th[t].maxDate)
           IN /\ PartitionsOf(cls, committed) =
                   PartitionsOf(cls, th[t].seen0) \cup
                   {partitionNameOf(cls, windows[w]) : w \in 1..Len(windows)}
              /\ \A n \in PartitionsOf(cls, committed) : Copies(n) = 1

\* the second run of a process, over two windows: the first window's partition
\* was made by the first run and is in the cache, the second window's is new
C16_Witness ==
  /\ Done("t1", "module_createPartitions") /\ th["t1"].result = "ok"
  /\ th["t1"].ops = 2 /\ SetupNames \subseteq th["t1"].seen0
  /\ Len(th["t1"].items) = 2
  /\ partitionNameOf("ReportsTable", th["t1"].items[1]) \in th["t1"].cache0
  /\ partitionNameOf("ReportsTable", th["t1"].items[2]) \notin th["t1"].seen0
  /\ partitionNameOf("PluginsReportsTable", th["t1"].items[2]) \in committed

\* C17: while setupDatabase runs nothing it created is committed; when it ends
\* with an error the database holds what it held before the run, the transaction
\* has been rolled back and no commit was made; when it ends normally it made one
\* commit, as its last step, and every object of the catalog is committed.
C17_SetupAllOrNothing ==
  \A t \in Threads :
    th[t].kind = "setupDatabase" =>
      /\ th[t].pc \in {"setup_create", "setup_commit", "setup_rollback"} =>
           committed = th[t].seen0 /\ Count(t, "commit") = 0
      /\ (th[t].pc = "done" /\ th[t].result # "ok") =>
           /\ committed = th[t].seen0
           /\ conn[<<t, Connected>>] = CleanTxn
           /\ Count(t, "commit") = 0 /\ Count(t, "rollback") = 1
      /\ (th[t].pc = "done" /\ th[t].result = "ok") =>
           /\ committed = th[t].seen0 \cup SetupNames
           /\ conn[<<t, Connected>>] = CleanTxn
           /\ Count(t, "commit") = 1
           /\ th[t].trace[Len(th[t].trace)].k = "commit"
           /\ Count(t, "create") = Cardinality(SetupNames)

\* a run that failed after it had created objects
C17_Witness ==
  /\ Done("t1", "setupDatabase") /\ th["t1"].result = "SystemExit"
  /\ Count("t1", "create") > 3
  /\ committed = th["t1"].seen0

\* a run that created the whole catalog
C17_WitnessCommitted ==
  /\ Done("t1", "setupDatabase") /\ th["t1"].result = "ok"
  /\ th["t1"].seen0 = {} /\ SetupNames \subseteq committed

\* the classes cls depends on in databaseDependenciesForSetup, through at most n
\* steps of the mapping
RECURSIVE DependsWithin(_, _)
DependsWithin(cls, n) ==
  IF n = 0 \/ cls \notin DOMAIN databaseDependenciesForSetup THEN {}
  ELSE LET d == {databaseDependenciesForSetup[cls][i] :
                   i \in 1..Len(databaseDependenciesForSetup[cls])}
       IN d \cup UNION {DependsWithin(x, n - 1) : x \in d}

\* every class cls depends on, directly or not
DependsOn(cls) == DependsWithin(cls, Cardinality(DOMAIN databaseDependenciesForSetup))

\* C18: every dependency in databaseDependenciesForSetup is a key of the mapping
\* and no class depends on itself, directly or not; and when setupDatabase or
\* create is about to execute the creation statement of an object, the creation
\* statement of every object it depends on, directly or not, has been executed
\* earlier in the same call.
C18_SetupOrderRespectsDependencies ==
  /\ \A cls \in DOMAIN databaseDependenciesForSetup :
       /\ DependsOn(cls) \subseteq DOMAIN databaseDependenciesForSetup
       /\ cls \notin DependsOn(cls)
  /\ \A t \in Threads :
       th[t].pc \in {"setup_create", "create_self"} =>
         /\ Count(t, "create") = th[t].ti - 1
         /\ \A d \in DependsOn(th[t].order[th[t].ti]) :
              \E i \in 1..(th[t].ti - 1) : th[t].order[i] = d

\* setupDatabase, with the keys of the mapping in reverse order, is about to
\* create a table whose precursors have precursors of their own
C18_Witness ==
  /\ th["t1"].kind = "setupDatabase" /\ th["t1"].pc = "setup_create"
  /\ th["t1"].order[1] # textualOrder[1]
  /\ th["t1"].order[th["t1"].ti] = "TopCrashByUrlSignatureTable"
  /\ Cardinality(DependsOn("TopCrashByUrlSignatureTable")) > 3

\* create is about to create the object it was called for, after its precursors
C18_WitnessCreate ==
  /\ th["t1"].kind = "create" /\ th["t1"].pc = "create_self"
  /\ th["t1"].cls = "TopCrashByUrlSignatureTable"
  /\ th["t1"].order[th["t1"].ti] = th["t1"].cls /\ th["t1"].ti > 3

\* C19: when setupDatabase has ended in a database that already held some of the
\* objects of the catalog, it has ended normally and every object of the catalog
\* exists.
C19_SetupToleratesExisting ==
  \A t \in Threads :
    ( /\ Done(t, "setupDatabase")
      /\ th[t].seen0 \cap SetupNames # {} ) =>
      /\ th[t].result = "ok"
      /\ SetupNames \subseteq committed

\* C20: when teardownDatabase has ended after one of its drops failed, the drop
\* of every object of the catalog has been executed, and every object other than
\* the one whose drop failed is gone.
C20_TeardownKeepsGoing ==
  \A t \in Threads :
    ( /\ Done(t, "teardownDatabase")
      /\ th[t].err # "none" ) =>
      /\ Len(th[t].order) = th[t].ti
      /\ \A i \in 1..Len(th[t].order) :
           (i # th[t].ti /\ dropSql(th[t].order[i]) # "pass") =>
             ObjName(th[t].order[i]) \notin committed

\* C21: when teardownDatabase has ended, on whichever path, the partition cache
\* is empty.
C21_TeardownClearsCache ==
  \A t \in Threads :
    Done(t, "teardownDatabase") => partitionCreationHistory = {}

\* C22: no step of insert, createPartitions, create or the caller takes a name
\* out of the partition cache: a step after which a name of the cache is missing
\* is the reset of teardownDatabase.
C22_CacheOnlyGrows ==
  [][ \/ partitionCreationHistory \subseteq partitionCreationHistory'
      \/ \E t \in Threads : th[t].pc = "teardown_reset" /\ partitionCreationHistory' = {}
    ]_vars

\* an insert that began with names in the cache has added one through its
\* fallback path, and the names it began with are still there
C22_Witness ==
  /\ Done("t1", "insert")
  /\ th["t1"].cache0 # {}
  /\ th["t1"].cache0 \subseteq partitionCreationHistory
  /\ th["t1"].cache0 # partitionCreationHistory

\* C23: when teardownDatabase has executed the drop of an object of the catalog,
\* whatever the class of the object, a 'drop ... if exists ... cascade' statement
\* was executed for it: the step is a statement on the cursor, and an object that
\* existed is not visible on the connection afterwards.
C23_EveryDropRemoves ==
  \A t \in Threads :
    (th[t].kind = "teardownDatabase" /\ th[t].pc \in {"teardown_drop", "teardown_commit"}) =>
      \A i \in 1..Len(th[t].trace) :
        /\ th[t].trace[i].k \in {"drop table if exists", "drop type if exists"}
        /\ th[t].trace[i].c = th[t].cur
        /\ ObjName(th[t].order[i]) \notin Visible(<<t, th[t].cur>>)

\* C24: during a call of create the cursor's connection is neither committed
\* nor rolled back: the call makes no commit and no rollback step, and every
\* object it has created is still pending in the caller's transaction.
C24_CreateLeavesTransactionToCaller ==
  \A t \in Threads :
    th[t].kind = "create" =>
      /\ Count(t, "commit") = 0 /\ Count(t, "rollback") = 0
      /\ (Visible(<<t, th[t].cur>>) \ th[t].seen0) \subseteq conn[<<t, th[t].cur>>].pend

\* C25: when a call of PartitionedTable.createPartitions has ended, normally or
\* not, the transaction of the connection it was given has been ended: nothing is
\* pending on it and it is not in the failed state.
C25_CreatePartitionsEndsTransaction ==
  \A t \in Threads :
    Done(t, "createPartitions") => conn[<<t, th[t].cur>>] = CleanTxn

\* the steps thread t's call has made on the alternate cursor
AlternateSteps(t) == SelectSeq(th[t].trace, LAMBDA e : e.c = "alt")

\* createPartitions, called by insert on the alternate cursor, has ended with an
\* exception: the last statement on that cursor raised and nothing handled it there
CreationFailed(t) ==
  /\ th[t].kind = "insert" /\ th[t].pc \in {"insert_retry", "done"}
  /\ AlternateSteps(t) # <<>>
  /\ AlternateSteps(t)[Len(AlternateSteps(t))].err # "none"

\* C26: when createPartitions has failed on the alternate cursor during an
\* insert, the insert has not ended before its retry; when the call has ended the
\* insert statement has run a second time, on the original cursor, as the call's
\* last step, and the call's result is the outcome of that second attempt.
C26_CreationFailureStillRetries ==
  \A t \in Threads :
    CreationFailed(t) =>
      /\ th[t].pc = "insert_retry" => Len(InsertAttempts(t)) = 1
      /\ th[t].pc = "done" =>
           /\ Len(InsertAttempts(t)) = 2
           /\ InsertAttempts(t)[2].c = "main"
           /\ th[t].trace[Len(th[t].trace)] = InsertAttempts(t)[2]
           /\ th[t].result = (IF InsertAttempts(t)[2].err = "none" THEN "ok"
                              ELSE InsertAttempts(t)[2].err)

\* the creation failed and the retried insert decided the result
C26_Witness ==
  /\ CreationFailed("t1") /\ th["t1"].pc = "done"
  /\ Len(InsertAttempts("t1")) = 2
  /\ AlternateSteps("t1")[Len(AlternateSteps("t1"))].err = "OperationalError"
  /\ th["t1"].result = InsertAttempts("t1")[2].err

\* the partition insert computes for the table of class cls and the value v
InsertTarget(cls, v) ==
  partitionCreationParameters(cls, mondayPairsIteratorFactory(v, v)[1]).partitionName

\* (year, month, day) a before (year, month, day) b, or the same day
NotAfter(a, b) ==
  \/ a[1] < b[1]
  \/ a[1] = b[1] /\ a[2] < b[2]
  \/ a[1] = b[1] /\ a[2] = b[2] /\ a[3] <= b[3]

\* C27: an insert with the partitioning value v executes its insert statements
\* on the partition named after the Monday M on or before v, whose constraint
\* [startDate, endDate) runs from M to seven days later and contains v; and two
\* values have the same partition of a table exactly when they are in the same
\* week.
C27_Routing ==
  \A t \in Threads :
    ( /\ th[t].kind = "insert" /\ HasPartitionKey(th[t].kwargs)
      /\ th[t].pc # "insert_key" ) =>
      LET v == th[t].kwargs["date_processed"]
      IN /\ \E M \in (0 - 6)..v :
              /\ M % 7 = 0 /\ M <= v /\ v < M + 7
              /\ LET p == partitionCreationParameters(th[t].cls, <<M, M + 7>>)
                 IN /\ th[t].pname = p.partitionName
                    /\ p.partitionName = <<className(th[t].cls), compressedDate(M)>>
                    /\ p.startDate = timetuple3(M) /\ p.endDate = timetuple3(M + 7)
                    /\ NotAfter(p.startDate, timetuple3(v))
                    /\ NotAfter(timetuple3(v), p.endDate) /\ timetuple3(v) # p.endDate
                    /\ (th[t].pc = "done" /\ th[t].result = "ok") =>
                         <<p.partitionName, th[t].row>> \in VisibleRows(<<t, "main">>)
         /\ \A w \in Dates :
              (InsertTarget(th[t].cls, w) = th[t].pname) <=> (w \div 7 = v \div 7)

\* a row for a Tuesday of June has been stored in the partition of its Monday
C27_Witness ==
  /\ Done("t1", "insert") /\ th["t1"].result = "ok"
  /\ th["t1"].kwargs["date_processed"] = 8
  /\ th["t1"].pname = <<"reports", 20240603>>
  /\ <<th["t1"].pname, th["t1"].row>> \in VisibleRows(<<"t1", "main">>)

\* how many times the value x occurs in the sequence seq
Occurrences(seq, x) == Cardinality({i \in 1..Len(seq) : seq[i] = x})

\* how many worker threads are running the job x
RunningJob(x) ==
  Cardinality({w \in 1..Len(ttm.thread_list) : ttm.thread_list[w] = Running(x)})

\* C28: every job the job source iterator has yielded is in exactly one place:
\* in the queue, with one worker thread, or passed to the task function, once;
\* no other job is anywhere; when the queuing thread has ended every yielded job
\* has been passed to the task function exactly once, and these are all the jobs
\* of the source unless stop() was called; with one worker thread the jobs are
\* executed in the order they were yielded.
C28_ExactlyOnce ==
  /\ \A x \in 0..(MaxJobs - 1) :
       Occurrences(ttm.task_queue, Task(x)) + RunningJob(x) + Occurrences(ttm.calls, x)
         = (IF x < ttm.yielded THEN 1 ELSE 0)
  /\ ttm.queuing_thread = "dead" =>
       /\ Len(ttm.calls) = ttm.yielded
       /\ \A x \in 0..(ttm.yielded - 1) : Occurrences(ttm.calls, x) = 1
       /\ ~ttm.quit => ttm.yielded = ttm.jobs
  /\ ttm.number_of_threads = 1 =>
       \A i \in 1..Len(ttm.calls) : ttm.calls[i] = i - 1

\* two workers have executed all the jobs of the source, not in the order yielded
C28_Witness ==
  /\ ttm.queuing_thread = "dead" /\ ~ttm.quit
  /\ ttm.number_of_threads = 2 /\ ttm.jobs = 3
  /\ Len(ttm.calls) = 3 /\ ttm.calls[1] # 0

\* the worker threads that have ended
EndedWorkers == {w \in 1..Len(ttm.thread_list) : ~ttm.thread_list[w].alive}

\* C29: a worker thread ends only by taking a (None, None) from the queue, never
\* by an exception of the task function; and when the queuing thread has ended
\* after the task function raised for one job, that job alone is missing from
\* the work done: every other yielded job has been done exactly once.
C29_FailureIsolation ==
  /\ Cardinality(EndedWorkers) = ttm.killed - Occurrences(ttm.task_queue, NoneNone)
  /\ (ttm.queuing_thread = "dead" /\ ttm.raiseAt \in 1..Len(ttm.calls)) =>
       /\ Len(ttm.my_list) = ttm.yielded - 1
       /\ Occurrences(ttm.my_list, ttm.calls[ttm.raiseAt]) = 0
       /\ \A x \in 0..(ttm.yielded - 1) :
            x # ttm.calls[ttm.raiseAt] => Occurrences(ttm.my_list, x) = 1

\* one worker, the second call raised: jobs 0 and 2 are done, by the same thread
C29_Witness ==
  /\ ttm.queuing_thread = "dead" /\ ~ttm.quit
  /\ ttm.number_of_threads = 1 /\ ttm.jobs = 3 /\ ttm.raiseAt = 2
  /\ ttm.my_list = <<0, 2>>

C31_NoDanglingSavepoint ==
  \A t \in Threads :
    (th[t].pc = "done" /\ th[t].kind \in {"insert", "create", "createPartitions"}) =>
      \A c \in Cursors : conn[<<t, c>>].sp = <<>>

\* the objects of thread t's create call, in the order of its creation statements
CreateOrder(t) == [i \in 1..Len(th[t].order) |-> ObjName(th[t].order[i])]

\* the outcomes of the creation statements of thread t's call, in order
CreateAttempts(t) == SelectSeq(th[t].trace, LAMBDA e : e.k = "create")

\* C32: in a create call on a usable transaction, a creation statement that fails
\* with 'already exists' loses only its own effect: at every point of the call the
\* objects created by its earlier statements are still there, and when the call
\* has ended every object of the ordered list has had its creation statement
\* executed and the connection sees what it saw before the call plus all of them.
C32_CreateFailureIsolated ==
  \A t \in Threads :
    (th[t].kind = "create" /\ ~th[t].failed0) =>
      /\ \A i \in 1..Len(CreateAttempts(t)) :
           CreateAttempts(t)[i].err = "none" => CreateOrder(t)[i] \in Visible(<<t, th[t].cur>>)
      /\ th[t].pc = "done" =>
           /\ th[t].result = "ok"
           /\ Len(CreateAttempts(t)) = Len(th[t].order)
           /\ Visible(<<t, th[t].cur>>) =
                th[t].seen0 \cup {CreateOrder(t)[i] : i \in 1..Len(th[t].order)}

\* urldims existed: the three objects before it were created, its statement failed,
\* the two after it were created
C32_Witness ==
  /\ Done("t1", "create") /\ th["t1"].cls = "TopCrashByUrlSignatureTable"
  /\ Len(CreateAttempts("t1")) = 6
  /\ \A i \in 1..6 : CreateAttempts("t1")[i].err = (IF i = 4 THEN "ProgrammingError" ELSE "none")
  /\ th["t1"].order[4] = "UrlDimsTable"
  /\ {CreateOrder("t1")[i] : i \in 1..6} \subseteq Visible(<<"t1", th["t1"].cur>>)

\* the position in thread t's trace of its call of alternateCursorFunction, 0 when
\* it has made none
AlternateAt(t) ==
  IF \E i \in 1..Len(th[t].trace) : th[t].trace[i].k = "alternateCursorFunction"
  THEN CHOOSE i \in 1..Len(th[t].trace) : th[t].trace[i].k = "alternateCursorFunction"
  ELSE 0

\* C33: in a call of insert every insert statement runs on the caller's cursor, as
\* does the insert savepoint with its release or rollback; every creation statement
\* runs on the alternate cursor, as do the creation savepoints, their releases and
\* rollbacks and the creation commits; and the alternate cursor is asked for at most
\* once, only after the first attempt failed with a ProgrammingError and was
\* rolled back and committed on the caller's cursor.
C33_SeparateCursors ==
  \A t \in Threads :
    th[t].kind = "insert" =>
      /\ Count(t, "alternateCursorFunction") <= 1
      /\ \A i \in 1..Len(th[t].trace) :
           LET e == th[t].trace[i] IN
           /\ e.k = "insert" => e.c = "main"
           /\ e.k = "create" => e.c = "alt" /\ AlternateAt(t) # 0 /\ i > AlternateAt(t)
           /\ e.k \in {"savepoint", "release", "rollback_release", "commit"} =>
                e.c = (IF AlternateAt(t) = 0 \/ i < AlternateAt(t) THEN "main" ELSE "alt")
      /\ AlternateAt(t) # 0 =>
           /\ AlternateAt(t) = 5
           /\ th[t].trace[1].k = "savepoint" /\ th[t].trace[2].k = "insert"
           /\ th[t].trace[2].err = "ProgrammingError"
           /\ th[t].trace[3].k = "rollback_release" /\ th[t].trace[4].k = "commit"

\* a fallback that created two partitions on the alternate cursor and stored the
\* row with the retry on the caller's cursor
C33_Witness ==
  /\ Done("t1", "insert") /\ th["t1"].result = "ok"
  /\ th["t1"].cls = "ExtensionsTable"
  /\ Cardinality({i \in 1..Len(th["t1"].trace) :
                    th["t1"].trace[i].k = "create" /\ th["t1"].trace[i].c = "alt"}) = 2
  /\ Cardinality({i \in 1..Len(th["t1"].trace) :
                    th["t1"].trace[i].k = "commit" /\ th["t1"].trace[i].c = "alt"}) = 2
  /\ Cardinality({i \in 1..Len(th["t1"].trace) :
                    th["t1"].trace[i].k = "insert" /\ th["t1"].trace[i].c = "main"}) = 2

\* how many creation statements of thread t's call have succeeded
CreatedCount(t) ==
  Cardinality({i \in 1..Len(th[t].trace) :
                 th[t].trace[i].k = "create" /\ th[t].trace[i].err = "none"})

\* createPartitions has ended inside thread t's insert: the retry is the next step
\* or has been made
AtOrAfterRetry(t) ==
  /\ th[t].kind = "insert"
  /\ Count(t, "alternateCursorFunction") = 1
  /\ th[t].pc \in {"insert_retry", "done"}

\* C34: when createPartitions has ended on the fallback path of an insert, before
\* the retry is issued, every partition its creation statements created is
\* committed, none of them is left pending on the alternate connection, and the
\* caller's connection sees them.
C34_CommitBeforeRetry ==
  \A t \in Threads :
    AtOrAfterRetry(t) =>
      /\ th[t].attempted \cap conn[<<t, "alt">>].pend = {}
      /\ Cardinality((th[t].attempted \cap committed) \ th[t].seen0) = CreatedCount(t)
      /\ (th[t].attempted \cap committed) \subseteq Visible(<<t, "main">>)

\* the retry is about to be issued, after the creation of two partitions
C34_Witness ==
  /\ th["t1"].kind = "insert" /\ th["t1"].pc = "insert_retry"
  /\ th["t1"].cls = "ExtensionsTable"
  /\ CreatedCount("t1") = 2
  /\ th["t1"].pname \in committed
  /\ th["t1"].pname \in Visible(<<"t1", "main">>)
  /\ Len(InsertAttempts("t1")) = 1

\* the kinds of the steps of thread t's call, in order
StepKinds(t) == [i \in 1..Len(th[t].trace) |-> th[t].trace[i].k]

\* the positions in thread t's trace of the commits on the caller's connection
CallerCommits(t) ==
  {i \in 1..Len(th[t].trace) : th[t].trace[i].k = "commit" /\ th[t].trace[i].c = "main"}

\* C35: an insert whose first attempt succeeds makes three steps, all on the
\* caller's cursor: savepoint, insert, release; it leaves the cache and the tables
\* the connection sees as they were and the row uncommitted in the caller's
\* transaction.  The one commit insert ever makes on the caller's connection is
\* the fourth step of the fallback path, and once it is made everything the
\* connection saw when the call began is committed, whatever the retry's outcome.
C35_CallerTransactionLeftAlone ==
  \A t \in Threads :
    th[t].kind = "insert" =>
      /\ (th[t].pc = "done" /\ FirstAttempt(t) = "none" /\ HasPartitionKey(th[t].kwargs)
            /\ ~th[t].failed0) =>
           /\ th[t].result = "ok"
           /\ StepKinds(t) = <<"savepoint", "insert", "release">>
           /\ \A i \in 1..3 : th[t].trace[i].c = "main"
           /\ partitionCreationHistory = th[t].cache0
           /\ Visible(<<t, "main">>) = th[t].seen0
           /\ <<th[t].pname, th[t].row>> \in conn[<<t, "main">>].prows
           /\ <<th[t].pname, th[t].row>> \notin rows
      /\ CallerCommits(t) \subseteq {4}
      /\ CallerCommits(t) = {4} =>
           /\ SubSeq(StepKinds(t), 1, 3) = <<"savepoint", "insert", "rollback_release">>
           /\ th[t].trace[2].err = "ProgrammingError"
           /\ th[t].seen0 \subseteq committed

\* the caller created processors and jobs in its transaction, then an insert into
\* reports fell back and its retry failed: the two tables are committed
C35_Witness ==
  /\ Done("t1", "insert") /\ th["t1"].result = "ProgrammingError"
  /\ CallerCommits("t1") = {4}
  /\ Len(InsertAttempts("t1")) = 2
  /\ committed = {ObjName("ProcessorsTable"), ObjName("JobsTable")}
  /\ th["t1"].seen0 = committed

\* the first attempt succeeded with the caller's earlier work still uncommitted
C35_WitnessSuccess ==
  /\ Done("t1", "insert") /\ th["t1"].result = "ok"
  /\ Len(th["t1"].trace) = 3
  /\ <<th["t1"].pname, th["t1"].row>> \in conn[<<"t1", "main">>].prows
  /\ Cardinality(conn[<<"t1", "main">>].prows) = 2

\* C36: in every state (no other process dropping partitions) every name in the
\* partition cache is the name of a partition that exists, committed.
C36_CacheNotAhead == partitionCreationHistory \subseteq committed

\* the classes that inherit from PartitionedTable
PartitionedTables ==
  {databaseObjectClassListForWeeklyPartitions[i] :
     i \in 1..Len(databaseObjectClassListForWeeklyPartitions)}

\* thread t is creating, inside an insert, the partition of the insert's own table
CreatingOwnPartition(t) ==
  /\ th[t].kind = "insert"
  /\ th[t].pc \in {"own_check", "own_savepoint", "own_create", "own_mark", "own_release",
                   "own_rollback", "own_commit"}
  /\ th[t].order[th[t].ti] = th[t].cls

\* C37: for the partitioning value v of a running insert and every partitioned
\* table, the name insert writes to, the name in the creation statement for v's
\* window and the name the cache is asked for and given are the same, and no other
\* (table, window) pair has the name the insert uses; while the insert's fallback
\* creates the partition of its table, the partition at hand, the name in the
\* creation statement and the name marked in the cache are that name.  (A name
\* <<prefix, digits>> stands for the string prefix_digits: the digits are always
\* the last eight characters, so the pair and the string determine each other.)
C37_OneNamePerPartition ==
  \A t \in Threads :
    (th[t].kind = "insert" /\ HasPartitionKey(th[t].kwargs) /\ th[t].pc # "insert_key") =>
      /\ th[t].pname = InsertTarget(th[t].cls, th[t].kwargs["date_processed"])
      /\ \A cls \in PartitionedTables :
           /\ InsertTarget(cls, th[t].kwargs["date_processed"]) = partitionNameOf(cls, InsertWindow(t))
           /\ InsertTarget(cls, th[t].kwargs["date_processed"]) =
                partitionCreationParameters(cls, InsertWindow(t)).partitionName
           /\ \A v \in Dates :
                partitionNameOf(cls, mondayPairsIteratorFactory(v, v)[1]) = th[t].pname =>
                  cls = th[t].cls /\ mondayPairsIteratorFactory(v, v)[1] = InsertWindow(t)
      /\ CreatingOwnPartition(t) =>
           /\ CurrentPartition(t) = th[t].pname
           /\ partitionCreationSql(t).n[2] = th[t].pname
           /\ th[t].pc = "own_release" =>
                /\ partitionWasCreated(th[t].pname)
                /\ th[t].pname \in conn[CpConn(t)].pend

\* inside an insert into extensions the partition has been created and marked
\* under the name the insert statement uses
C37_Witness ==
  /\ CreatingOwnPartition("t1") /\ th["t1"].pc = "own_release"
  /\ th["t1"].cls = "ExtensionsTable"
  /\ th["t1"].pname = <<"extensions", 20240603>>
  /\ partitionWasCreated(th["t1"].pname)
  /\ th["t1"].pname \in conn[CpConn("t1")].pend

\* C38: when a call of JobsTable.updateDefinition has completed without error, the
\* indexes the connection then sees are such that no if statement of a further
\* call executes its statements; and a call that starts from such indexes
\* completes without an alteration statement, leaving what the connection sees
\* as it was.
C38_AlterationIdempotent ==
  \A t \in Threads :
    (Done(t, "updateDefinition") /\ th[t].result = "ok") =>
      /\ Alterations(indexesForTable("jobs", <<t, "main">>)) = {}
      /\ Alterations(th[t].indexesList) = {} =>
           /\ Count(t, "alter") = 0
           /\ Visible(<<t, "main">>) = th[t].seen0

\* a second call, after a first one that dropped and created indexes, has run
\* through without a statement
C38_Witness ==
  /\ Done("t1", "updateDefinition") /\ th["t1"].result = "ok"
  /\ th["t1"].ops = 2
  /\ Count("t1", "alter") = 0
  /\ conn[<<"t1", "main">>].drop = {<<"idx_owner", 0>>, <<"jobs_owner_starteddatetime", 0>>}
  /\ <<"jobs_success_key", 0>> \in conn[<<"t1", "main">>].pend
  /\ Visible(<<"t1", "main">>) = th["t1"].seen0

====
